---- MODULE Spec2Model ----
(***************************************************************************)
(* Model of the Developer Journey subsystem of src/index.tsx: the gateway  *)
(* tables, App.fetchJourneyData, the mutation handlers of DeveloperJourney *)
(* and PersonaManagerModal, and the pure derivations (report summaries,    *)
(* CSV export, CFP deadline classification).                               *)
(*                                                                         *)
(* Text is a sequence of one-character strings, so that trim, quoting and  *)
(* parsing are computed character by character.                            *)
(***************************************************************************)
EXTENDS Integers, Sequences, FiniteSets, TLC

VARIABLES
    configured,            \* supabase !== null                      (index.tsx:170)
    mounted,               \* the effect of App that starts the first fetch has run
    db,                    \* the gateway's tables                    (index.tsx:117-168)
    nextId,                \* next id the gateway assigns
    writes,                \* gateway writes in flight (awaited promises of the handlers)
    fetches,               \* fetchJourneyData invocations in flight, in issue order
    isLoading,             \* App state                               (index.tsx:2303)
    journeyStages,         \* App state                               (index.tsx:2308)
    developerPersonas,     \* App state                               (index.tsx:2309)
    editing,               \* DeveloperJourney state                  (index.tsx:1636)
    editValue,             \* DeveloperJourney state                  (index.tsx:1637)
    editingPainPoint,      \* DeveloperJourney state                  (index.tsx:1638)
    ppForm,                \* PainPointEditor formData                (index.tsx:1766)
    editingTouchpoint,     \* DeveloperJourney state                  (index.tsx:1641)
    tpForm,                \* TouchpointEditor formData               (index.tsx:1827)
    editingMetric,         \* DeveloperJourney state                  (index.tsx:1642)
    metricForm,            \* MetricEditor formData                   (index.tsx:1913)
    personaPopoverAnchor,  \* DeveloperJourney state (TRUE: an anchor element is set)
    activeStepForPersona,  \* DeveloperJourney state                  (index.tsx:1640)
    isPersonaModalOpen,    \* App state                               (index.tsx:2326)
    editingPersona,        \* PersonaManagerModal state               (index.tsx:1117)
    personaForm,           \* PersonaForm formData                    (index.tsx:1161)
    log,                   \* history: one record per user intent that reached a mutation handler
    lastFetched,           \* history: the value last passed to setJourneyStages
    deleted,               \* history: ids removed by successful Delete Stage operations
    toggleRun,             \* history: the current run of consecutive toggles of one persona on one step
    queryErrors,           \* history: the number of queries of fetches that returned an error
    pure                   \* input and output of the pure derivations (report, CSV, deadline)

vars == << configured, mounted, db, nextId, writes, fetches, isLoading, journeyStages,
           developerPersonas, editing, editValue, editingPainPoint, ppForm,
           editingTouchpoint, tpForm, editingMetric, metricForm,
           personaPopoverAnchor, activeStepForPersona, isPersonaModalOpen,
           editingPersona, personaForm, log, lastFetched, deleted, toggleRun,
           queryErrors, pure >>

----
\* Bounds of the model

MaxOps == 2        \* user intents that reach a mutation handler
MaxErrors == 1     \* requests that fail on the way to the gateway or in it (a fetch counts once)
MaxInFlight == 2   \* requests in flight when the user starts a further mutation
MaxOpenForms == 1  \* editors (pain point, touchpoint, metric, persona) open at once
MaxFormsInFlight == 1  \* writes in flight at which the forms are no longer used

----
\* Values

\* JavaScript null and undefined. Values of different kinds are never compared
\* with each other: an object slot holds a record, NULL or UNDEFINED; an array
\* slot holds a sequence or NullArray; an optional number or id is Some(n), NULL
\* or UNDEFINED; a string slot of an enumeration holds NullString or
\* UndefinedString.
NULL == [ null |-> TRUE ]
UNDEFINED == [ undefined |-> TRUE ]
NullArray == << NULL >>
Some(x) == [ value |-> x ]
NullString == "null"
UndefinedString == "undefined"
EmptyObject == <<>>       \* {}

SP == " "
TextInputs == { <<>>, <<SP>>, <<"a">> }
EditInputs == { <<>>, <<"c">> }

NewStageName == <<"N", "e", "w", SP, "S", "t", "a", "g", "e">>
NewUserAction == <<"N", "e", "w", SP, "U", "s", "e", "r", SP, "A", "c", "t", "i", "o", "n">>
NewUserGoal == <<"N", "e", "w", SP, "U", "s", "e", "r", SP, "G", "o", "a", "l">>

PAIN_POINT_SEVERITIES == << "low", "medium", "high" >>
TOUCHPOINT_TYPES == << "Blog Post", "Video Tutorial", "Email", "Social Media Post",
                       "Docs", "Webinar", "Case Study", "Other" >>
MEASUREMENT_TYPES == << "count", "percentage", "duration" >>

Range(s) == { s[i] : i \in DOMAIN s }

\* String.prototype.trim: strip leading and trailing white space
RECURSIVE TrimLeft(_)
TrimLeft(t) == IF t # <<>> /\ Head(t) = SP THEN TrimLeft(Tail(t)) ELSE t

RECURSIVE TrimRight(_)
TrimRight(t) ==
    IF t # <<>> /\ t[Len(t)] = SP THEN TrimRight(SubSeq(t, 1, Len(t) - 1)) ELSE t

Trim(t) == TrimRight(TrimLeft(t))

\* the order of the characters of a column the gateway sorts by
CharRank(c) == CASE c = SP -> 0 [] c = "N" -> 1 [] c = "a" -> 2 [] c = "b" -> 3 [] OTHER -> 4

RECURSIVE TextLeq(_, _)
TextLeq(a, b) ==
    IF a = <<>> THEN TRUE
    ELSE IF b = <<>> THEN FALSE
    ELSE IF CharRank(Head(a)) < CharRank(Head(b)) THEN TRUE
    ELSE IF CharRank(Head(a)) > CharRank(Head(b)) THEN FALSE
    ELSE TextLeq(Tail(a), Tail(b))

\* stable sort of a sequence by a total preorder (Array.prototype.sort with a
\* comparator, or the gateway's ORDER BY): equal keys keep their relative order
SortBy(s, Leq(_, _)) ==
    LET Before(j, i) == \/ Leq(s[j], s[i]) /\ ~Leq(s[i], s[j])
                        \/ Leq(s[j], s[i]) /\ Leq(s[i], s[j]) /\ j < i
        Pos(i) == 1 + Cardinality({ j \in DOMAIN s : Before(j, i) })
    IN  [ k \in DOMAIN s |-> s[CHOOSE i \in DOMAIN s : Pos(i) = k] ]

RemoveAt(s, i) == SubSeq(s, 1, i - 1) \o SubSeq(s, i + 1, Len(s))

RECURSIVE Flatten(_)
Flatten(ss) == IF ss = <<>> THEN <<>> ELSE Head(ss) \o Flatten(Tail(ss))

MapSeq(s, F(_)) == [ i \in DOMAIN s |-> F(s[i]) ]

\* Array.prototype.flatMap
FlatMap(s, F(_)) == Flatten(MapSeq(s, F))

\* Array.prototype.filter
SelectBy(s, P(_)) == SelectSeq(s, P)

----
\* The Persistence Gateway: tables of rows in insertion order

EmptyDb == [ stages |-> <<>>, steps |-> <<>>, personas |-> <<>>, assoc |-> <<>>,
             pain_points |-> <<>>, touchpoints |-> <<>>, metrics |-> <<>>,
             audits |-> <<>> ]

\* the table behind each name the client passes to supabase.from(...)
TableOf(name) ==
    CASE name = "journey_stages" -> "stages"
      [] name = "journey_steps" -> "steps"
      [] name = "developer_personas" -> "personas"
      [] name = "persona_journey_steps" -> "assoc"
      [] name = "pain_points" -> "pain_points"
      [] name = "marketing_touchpoints" -> "touchpoints"
      [] name = "journey_metrics" -> "metrics"
      [] name = "journey_audits" -> "audits"

\* the columns of each table (Database.public.Tables.*.Row)
Columns(t) ==
    CASE t = "stages" -> { "id", "name", "stage_order" }
      [] t = "steps" -> { "id", "stage_id", "user_action", "user_goal" }
      [] t = "personas" -> { "id", "name" }
      [] t = "assoc" -> { "persona_id", "step_id" }
      [] t = "pain_points" -> { "id", "step_id", "description", "severity" }
      [] t = "touchpoints" -> { "id", "step_id", "title", "touchpoint_type" }
      [] t = "metrics" -> { "id", "step_id", "metric_name", "metric_goal", "measurement_type" }
      [] t = "audits" -> { "id", "step_id" }

IdsOf(rows) == { rows[i].id : i \in DOMAIN rows }

Matches(row, match) == \A c \in DOMAIN match : c \in DOMAIN row /\ row[c] = match[c]

\* the rows of a table that refer to a row that exists (foreign keys)
RefsOk(d, t, row) ==
    CASE t = "steps" -> row.stage_id \in IdsOf(d.stages)
      [] t \in { "pain_points", "touchpoints", "metrics", "audits" } ->
            row.step_id \in IdsOf(d.steps)
      [] t = "assoc" -> /\ row.step_id \in IdsOf(d.steps)
                        /\ row.persona_id \in IdsOf(d.personas)
      [] OTHER -> TRUE

\* ON DELETE CASCADE: drop the rows whose owner is gone, level by level
Cascade(d) ==
    LET steps == SelectSeq(d.steps, LAMBDA r : r.stage_id \in IdsOf(d.stages))
        Owned(rows) == SelectSeq(rows, LAMBDA r : r.step_id \in IdsOf(steps))
    IN  [ d EXCEPT !.steps = steps,
                   !.pain_points = Owned(d.pain_points),
                   !.touchpoints = Owned(d.touchpoints),
                   !.metrics = Owned(d.metrics),
                   !.audits = Owned(d.audits),
                   !.assoc = SelectSeq(d.assoc, LAMBDA r :
                                 /\ r.step_id \in IdsOf(steps)
                                 /\ r.persona_id \in IdsOf(d.personas)) ]

\* the null a column holds when an insert does not name it
NullOf(c) == IF c \in { "severity" } THEN NullString ELSE NULL

\* the gateway assigns `id` unless the row brings its own
GatewayInsert(d, t, row, id) ==
    LET full == [ c \in Columns(t) |->
                    IF c \in DOMAIN row THEN row[c]
                    ELSE IF c = "id" THEN id ELSE NullOf(c) ]
    IN  IF ~(DOMAIN row \subseteq Columns(t)) \/ ~RefsOk(d, t, row)
        THEN [ error |-> TRUE, db |-> d ]
        ELSE IF t = "assoc" /\ \E i \in DOMAIN d.assoc : d.assoc[i] = full
             THEN [ error |-> TRUE, db |-> d ]     \* the pair is the key of the join table
        ELSE [ error |-> FALSE, db |-> [ d EXCEPT ![t] = Append(@, full) ] ]

GatewayUpdate(d, t, match, patch) ==
    IF ~(DOMAIN patch \subseteq Columns(t)) THEN [ error |-> TRUE, db |-> d ]
    ELSE [ error |-> FALSE,
           db |-> [ d EXCEPT ![t] = [ i \in DOMAIN @ |->
                      IF Matches(@[i], match)
                      THEN [ c \in DOMAIN @[i] |->
                               IF c \in DOMAIN patch THEN patch[c] ELSE @[i][c] ]
                      ELSE @[i] ] ] ]

GatewayDelete(d, t, match) ==
    [ error |-> FALSE,
      db |-> Cascade([ d EXCEPT ![t] = SelectSeq(@, LAMBDA r : ~Matches(r, match)) ]) ]

\* insert, or update of the row that has the id the payload brings
GatewayUpsert(d, t, row, id) ==
    IF "id" \in DOMAIN row /\ row.id \in IdsOf(d[t])
    THEN IF ~RefsOk(d, t, row) THEN [ error |-> TRUE, db |-> d ]
         ELSE GatewayUpdate(d, t, [ id |-> row.id ], row)
    ELSE GatewayInsert(d, t, row, id)

\* the request consumes the id the gateway would assign next
UsesNewId(d, req) ==
    /\ req.kind \in { "insert", "upsert" }
    /\ TableOf(req.table) # "assoc"
    /\ "id" \notin DOMAIN req.row

\* one write request as the gateway executes it
GatewayApply(d, req, id) ==
    LET t == TableOf(req.table)
    IN  CASE req.kind = "insert" -> GatewayInsert(d, t, req.row, id)
          [] req.kind = "update" -> GatewayUpdate(d, t, req.match, req.patch)
          [] req.kind = "upsert" -> GatewayUpsert(d, t, req.row, id)
          [] req.kind = "delete" -> GatewayDelete(d, t, req.match)

StageOrderLeq(a, b) == a.stage_order <= b.stage_order
NameLeq(a, b) == TextLeq(a.name, b.name)

\* supabase.from('developer_personas').select('*').order('name')
fetchAllPersonas(d) == SortBy(d.personas, NameLeq)

\* the nested select of journey_stages, before .order(...)
NestedStages(d) ==
    LET Of(rows, stepId) == SelectSeq(rows, LAMBDA r : r.step_id = stepId)
        Persona(pid) ==
            IF pid \in IdsOf(d.personas)
            THEN d.personas[CHOOSE i \in DOMAIN d.personas : d.personas[i].id = pid]
            ELSE NULL
        Step(r) == [ id |-> r.id, stage_id |-> r.stage_id,
                     user_action |-> r.user_action, user_goal |-> r.user_goal,
                     pain_points |-> Of(d.pain_points, r.id),
                     touchpoints |-> Of(d.touchpoints, r.id),
                     metrics |-> Of(d.metrics, r.id),
                     audits |-> Of(d.audits, r.id),
                     persona_journey_steps |->
                         MapSeq(Of(d.assoc, r.id),
                                LAMBDA a : [ developer_personas |-> Persona(a.persona_id) ]) ]
        Stage(r) == [ id |-> r.id, name |-> r.name, stage_order |-> r.stage_order,
                      steps |-> MapSeq(SelectSeq(d.steps, LAMBDA st : st.stage_id = r.id),
                                       Step) ]
    IN  MapSeq(d.stages, Stage)

\* supabase.from('journey_stages').select(`...`).order('stage_order')
\* the stage query without .order('stage_order')
fetchStagesUnordered(d) == NestedStages(d)

fetchStages(d) == SortBy(NestedStages(d), StageOrderLeq)

----
\* App.fetchJourneyData and the render functions

\* v || []
OrEmpty(v) == IF v = NullArray THEN <<>> ELSE v

\* a filter that keeps every element
FilterNothing(s) == s

\* .filter(Boolean)
FilterBoolean(s) == SelectSeq(s, LAMBDA v : v # NULL)

\* the reshaping of the rows of the stage query (processedStages)
processedStep(step) ==
    [ c \in DOMAIN step \cup { "personas" } |->
        CASE c = "personas" ->
                 FilterBoolean(MapSeq(step.persona_journey_steps,
                                      LAMBDA pjs : pjs.developer_personas))
          [] c = "pain_points" -> OrEmpty(step.pain_points)
          [] c = "touchpoints" -> OrEmpty(step.touchpoints)
          [] c = "metrics" -> OrEmpty(step.metrics)
          [] c = "audits" -> OrEmpty(step.audits)
          [] OTHER -> step[c] ]

processedStages(stagesData) ==
    MapSeq(stagesData, LAMBDA stage :
        [ stage EXCEPT !.steps = MapSeq(stage.steps, processedStep) ])

\* stages.sort((a,b) => a.stage_order - b.stage_order) in the render of DeveloperJourney;
\* the sort is in place, on the array held by App
RenderSort(stages) == SortBy(stages, StageOrderLeq)

PENDING == [ pending |-> TRUE ]

RECURSIVE SumErrors(_)
SumErrors(l) == IF l = <<>> THEN 0 ELSE Head(l).errors + SumErrors(Tail(l))

\* a further request may fail
CanFail == queryErrors + SumErrors(log) < MaxErrors

\* a query of a fetch that has returned an error
QueryFailed(q) == q # PENDING /\ q.error

\* a fetch in flight: the two queries of Promise.all, each pending or resolved
NewFetch == [ personas |-> PENDING, stages |-> PENDING, deletedAtIssue |-> deleted ]

\* the initial formData of PersonaForm for the persona being edited ({} for a new one)
PersonaFormOf(persona) ==
    IF persona = NULL THEN NULL
    ELSE [ id |-> IF "id" \in DOMAIN persona THEN Some(persona.id) ELSE UNDEFINED,
           name |-> IF "name" \in DOMAIN persona THEN persona.name ELSE <<>> ]

\* The editors are components defined inside the function that renders them, so
\* every render of the parent mounts them anew with formData = their prop.
RenderJourneyEditors ==
    /\ ppForm' = editingPainPoint'
    /\ tpForm' = editingTouchpoint'
    /\ metricForm' = editingMetric'

RenderPersonaManager == personaForm' = PersonaFormOf(editingPersona')

dbVars == << configured, db, nextId >>
appVars == << isLoading, journeyStages, developerPersonas, lastFetched >>
inlineVars == << editing, editValue >>
editorVars == << editingPainPoint, ppForm, editingTouchpoint, tpForm, editingMetric,
                 metricForm >>
editorStateVars == << editingPainPoint, editingTouchpoint, editingMetric >>
popoverVars == << personaPopoverAnchor, activeStepForPersona >>
personaMgrVars == << isPersonaModalOpen, editingPersona, personaForm >>
histVars == << deleted, toggleRun, queryErrors >>

\* a render of App with the editing state of the children unchanged
RenderApp ==
    /\ UNCHANGED << editorStateVars, isPersonaModalOpen, editingPersona >>
    /\ RenderJourneyEditors
    /\ RenderPersonaManager

\* fetchJourneyData up to its await, gateway configured (index.tsx:2333, 2343-2362)
StartFetch ==
    /\ isLoading' = TRUE
    /\ fetches' = Append(fetches, NewFetch)
    /\ UNCHANGED << journeyStages, developerPersonas, lastFetched >>

\* the effect of App: the first fetchJourneyData; without a gateway the function
\* clears both collections and the loading flag and returns (index.tsx:2335-2341)
Mount ==
    /\ ~mounted
    /\ mounted' = TRUE
    /\ IF configured
       THEN StartFetch
       ELSE /\ journeyStages' = <<>>
            /\ developerPersonas' = <<>>
            /\ isLoading' = FALSE
            /\ lastFetched' = <<>>
            /\ UNCHANGED fetches
    /\ RenderApp
    /\ UNCHANGED << dbVars, writes, inlineVars, popoverVars, log, histVars, pure >>

\* the gateway answers the persona query of fetch i; a fetch whose two queries both
\* fail counts once against the bound on failures
GatewayReadPersonas(i, ok) ==
    /\ i \in DOMAIN fetches
    /\ fetches[i].personas = PENDING
    /\ fetches' = [ fetches EXCEPT ![i].personas =
                      IF ok THEN [ data |-> fetchAllPersonas(db), error |-> FALSE ]
                      ELSE [ data |-> NullArray, error |-> TRUE ] ]
    /\ ok \/ CanFail \/ QueryFailed(fetches[i].stages)
    /\ queryErrors' = IF ok \/ QueryFailed(fetches[i].stages) THEN queryErrors
                      ELSE queryErrors + 1
    /\ UNCHANGED << mounted, dbVars, writes, appVars, inlineVars, editorVars, popoverVars,
                    personaMgrVars, log, deleted, toggleRun, pure >>

\* the gateway answers the stage query of fetch i
GatewayReadStages(i, ok) ==
    /\ i \in DOMAIN fetches
    /\ fetches[i].stages = PENDING
    /\ fetches' = [ fetches EXCEPT ![i].stages =
                      IF ok THEN [ data |-> fetchStages(db), error |-> FALSE ]
                      ELSE [ data |-> NullArray, error |-> TRUE ] ]
    /\ ok \/ CanFail \/ QueryFailed(fetches[i].personas)
    /\ queryErrors' = IF ok \/ QueryFailed(fetches[i].personas) THEN queryErrors
                      ELSE queryErrors + 1
    /\ UNCHANGED << mounted, dbVars, writes, appVars, inlineVars, editorVars, popoverVars,
                    personaMgrVars, log, deleted, toggleRun, pure >>

\* fetchJourneyData after its await, had it cleared the collection of a failed query
FetchResolveClearing(i) ==
    /\ i \in DOMAIN fetches
    /\ fetches[i].personas # PENDING
    /\ fetches[i].stages # PENDING
    /\ LET personasData == fetches[i].personas.data
           stagesData == fetches[i].stages.data
       IN  /\ developerPersonas' = IF personasData # NullArray THEN personasData ELSE <<>>
           /\ lastFetched' =
                  IF stagesData # NullArray THEN processedStages(stagesData) ELSE <<>>
           /\ journeyStages' =
                  IF stagesData # NullArray THEN RenderSort(processedStages(stagesData))
                  ELSE <<>>
    /\ isLoading' = FALSE
    /\ fetches' = RemoveAt(fetches, i)
    /\ RenderApp
    /\ UNCHANGED << mounted, dbVars, writes, inlineVars, popoverVars, log, histVars, pure >>

\* fetchJourneyData after its await, had it returned on a query error before the last
\* statement
FetchResolveReturning(i) ==
    /\ i \in DOMAIN fetches
    /\ fetches[i].personas # PENDING
    /\ fetches[i].stages # PENDING
    /\ LET personasData == fetches[i].personas.data
           stagesData == fetches[i].stages.data
       IN  /\ developerPersonas' =
                  IF personasData # NullArray THEN personasData ELSE developerPersonas
           /\ lastFetched' =
                  IF stagesData # NullArray THEN processedStages(stagesData) ELSE lastFetched
           /\ journeyStages' =
                  IF stagesData # NullArray THEN RenderSort(processedStages(stagesData))
                  ELSE journeyStages
    /\ isLoading' = IF fetches[i].personas.error \/ fetches[i].stages.error THEN isLoading
                    ELSE FALSE
    /\ fetches' = RemoveAt(fetches, i)
    /\ RenderApp
    /\ UNCHANGED << mounted, dbVars, writes, inlineVars, popoverVars, log, histVars, pure >>

\* fetchJourneyData after its await, had it applied its results only when neither
\* query returned an error
FetchResolveAllOrNothing(i) ==
    /\ i \in DOMAIN fetches
    /\ fetches[i].personas # PENDING
    /\ fetches[i].stages # PENDING
    /\ LET personasData == fetches[i].personas.data
           stagesData == fetches[i].stages.data
           both == personasData # NullArray /\ stagesData # NullArray
       IN  /\ developerPersonas' = IF both THEN personasData ELSE developerPersonas
           /\ lastFetched' = IF both THEN processedStages(stagesData) ELSE lastFetched
           /\ journeyStages' =
                  IF both THEN RenderSort(processedStages(stagesData)) ELSE journeyStages
    /\ isLoading' = FALSE
    /\ fetches' = RemoveAt(fetches, i)
    /\ RenderApp
    /\ UNCHANGED << mounted, dbVars, writes, inlineVars, popoverVars, log, histVars, pure >>

\* fetchJourneyData after its await, had it awaited the stage query alone
FetchResolveEarly(i) ==
    /\ i \in DOMAIN fetches
    /\ fetches[i].stages # PENDING
    /\ LET stagesData == fetches[i].stages.data
       IN  /\ developerPersonas' =
                  IF fetches[i].personas # PENDING /\ fetches[i].personas.data # NullArray
                  THEN fetches[i].personas.data ELSE developerPersonas
           /\ lastFetched' =
                  IF stagesData # NullArray THEN processedStages(stagesData) ELSE lastFetched
           /\ journeyStages' =
                  IF stagesData # NullArray THEN RenderSort(processedStages(stagesData))
                  ELSE journeyStages
    /\ isLoading' = FALSE
    /\ fetches' = RemoveAt(fetches, i)
    /\ RenderApp
    /\ UNCHANGED << mounted, dbVars, writes, inlineVars, popoverVars, log, histVars, pure >>

\* fetchJourneyData after its await: Promise.all has resolved (index.tsx:2362-2386);
\* the set-state calls of the continuation are applied in one render (the root is
\* created with createRoot, index.tsx:2587)
FetchResolve(i) ==
    /\ i \in DOMAIN fetches
    /\ fetches[i].personas # PENDING
    /\ fetches[i].stages # PENDING
    /\ LET personasData == fetches[i].personas.data
           stagesData == fetches[i].stages.data
       IN  /\ developerPersonas' =
                  IF personasData # NullArray THEN personasData ELSE developerPersonas
           /\ lastFetched' =
                  IF stagesData # NullArray THEN processedStages(stagesData) ELSE lastFetched
           /\ journeyStages' =
                  IF stagesData # NullArray THEN RenderSort(processedStages(stagesData))
                  ELSE journeyStages
    /\ isLoading' = FALSE
    /\ fetches' = RemoveAt(fetches, i)
    /\ RenderApp
    /\ UNCHANGED << mounted, dbVars, writes, inlineVars, popoverVars, log, histVars, pure >>

----
\* The mutation handlers up to their await

NewLog(op) == [ op |-> op, alerts |-> <<>>, writes |-> 0, errors |-> 0, refetches |-> 0,
                confirmed |-> "n/a" ]

\* alert(...) in a handler that returns before any gateway call
Refuse(op, message) ==
    /\ log' = Append(log, [ NewLog(op) EXCEPT !.alerts = << message >> ])
    /\ UNCHANGED writes

\* the handler issues one gateway write and awaits it
Send(op, req) ==
    /\ log' = Append(log, [ NewLog(op) EXCEPT !.writes = 1 ])
    /\ writes' = Append(writes, [ intent |-> Len(log) + 1, op |-> op, req |-> req ])

\* the journey view shows the tree (not the loader) and accepts a gesture; the
\* persona manager is an overlay that covers it
ViewReady == mounted /\ ~isLoading /\ ~isPersonaModalOpen
CanAct == Len(log) < MaxOps /\ Len(writes) + Len(fetches) < MaxInFlight

Quiescent == mounted /\ writes = <<>> /\ fetches = <<>>

\* a gesture that is not a toggle ends the run of consecutive toggles
EndToggleRun == toggleRun' = NULL

\* the insert of Add Stage with the number of stages as its stage_order
addStageRequestAtCount(stages) ==
    [ table |-> "journey_stages", kind |-> "insert",
      row |-> [ name |-> NewStageName, stage_order |-> Len(stages) ] ]

addStageRequest(stages) ==
    [ table |-> "journey_stages", kind |-> "insert",
      row |-> [ name |-> NewStageName, stage_order |-> Len(stages) + 1 ] ]

\* Add Stage without the check of the gateway
addStageUnguarded ==
    /\ CanAct
    /\ Send("addStage", addStageRequest(journeyStages))
    /\ EndToggleRun
    /\ UNCHANGED << mounted, dbVars, fetches, appVars, inlineVars, editorVars, popoverVars,
                    personaMgrVars, deleted, queryErrors, pure >>

addStage ==
    /\ CanAct
    /\ IF ~configured THEN Refuse("addStage", "not_configured")
       ELSE Send("addStage", addStageRequest(journeyStages))
    /\ EndToggleRun
    /\ UNCHANGED << mounted, dbVars, fetches, appVars, inlineVars, editorVars, popoverVars,
                    personaMgrVars, deleted, queryErrors, pure >>

\* a delete that names the table of the steps
deleteStageFromSteps(stageId) ==
    [ table |-> "journey_steps", kind |-> "delete", match |-> [ id |-> stageId ] ]

deleteStageRequest(stageId) ==
    [ table |-> "journey_stages", kind |-> "delete", match |-> [ id |-> stageId ] ]

\* window.confirm answers `confirm`
deleteStage(stageId, confirm) ==
    /\ CanAct
    /\ IF ~configured THEN Refuse("deleteStage", "not_configured")
       ELSE IF confirm
       THEN /\ log' = Append(log, [ NewLog("deleteStage") EXCEPT !.writes = 1,
                                                              !.confirmed = "yes" ])
            /\ writes' = Append(writes, [ intent |-> Len(log) + 1, op |-> "deleteStage",
                                          req |-> deleteStageRequest(stageId) ])
       ELSE /\ log' = Append(log, [ NewLog("deleteStage") EXCEPT !.confirmed = "no" ])
            /\ UNCHANGED writes
    /\ EndToggleRun
    /\ UNCHANGED << mounted, dbVars, fetches, appVars, inlineVars, editorVars, popoverVars,
                    personaMgrVars, deleted, queryErrors, pure >>

addStepRequest(stageId) ==
    [ table |-> "journey_steps", kind |-> "insert",
      row |-> [ stage_id |-> stageId, user_action |-> NewUserAction,
                user_goal |-> NewUserGoal ] ]

addStep(stageId) ==
    /\ CanAct
    /\ IF ~configured THEN Refuse("addStep", "not_configured")
       ELSE Send("addStep", addStepRequest(stageId))
    /\ EndToggleRun
    /\ UNCHANGED << mounted, dbVars, fetches, appVars, inlineVars, editorVars, popoverVars,
                    personaMgrVars, deleted, queryErrors, pure >>

deleteStepRequest(stepId) ==
    [ table |-> "journey_steps", kind |-> "delete", match |-> [ id |-> stepId ] ]

deleteStep(stepId, confirm) ==
    /\ CanAct
    /\ IF ~configured THEN Refuse("deleteStep", "not_configured")
       ELSE IF confirm
       THEN /\ log' = Append(log, [ NewLog("deleteStep") EXCEPT !.writes = 1,
                                                             !.confirmed = "yes" ])
            /\ writes' = Append(writes, [ intent |-> Len(log) + 1, op |-> "deleteStep",
                                          req |-> deleteStepRequest(stepId) ])
       ELSE /\ log' = Append(log, [ NewLog("deleteStep") EXCEPT !.confirmed = "no" ])
            /\ UNCHANGED writes
    /\ EndToggleRun
    /\ UNCHANGED << mounted, dbVars, fetches, appVars, inlineVars, editorVars, popoverVars,
                    personaMgrVars, deleted, queryErrors, pure >>

----
\* Inline editing of a stage name or a step's action or goal

\* click on the text rendered by renderEditable
handleEditClick(type, field, id, currentValue) ==
    /\ editing' = [ type |-> type, id |-> id, field |-> field ]
    /\ editValue' = currentValue
    /\ UNCHANGED editorStateVars
    /\ RenderJourneyEditors
    /\ EndToggleRun
    /\ UNCHANGED << mounted, dbVars, writes, fetches, appVars, popoverVars, personaMgrVars,
                    log, deleted, queryErrors, pure >>

\* onChange of the inline input
setEditValue(value) ==
    /\ editing # NULL
    /\ value # editValue
    /\ editValue' = value
    /\ UNCHANGED << editing, editorStateVars >>
    /\ RenderJourneyEditors
    /\ EndToggleRun
    /\ UNCHANGED << mounted, dbVars, writes, fetches, appVars, popoverVars, personaMgrVars,
                    log, deleted, queryErrors, pure >>

\* the update of handleSave: the column is named by editing.field
handleSaveRequest(e, value) ==
    [ table |-> IF e.type = "stage" THEN "journey_stages" ELSE "journey_steps",
      kind |-> "update", match |-> [ id |-> e.id ],
      patch |-> [ c \in { e.field } |-> value ] ]

\* handleSave called `calls` times in one gesture, each call up to its await
handleSaveCalls(op, calls) ==
    /\ CanAct
    /\ editing # NULL
    /\ IF ~configured
       THEN /\ log' = Append(log, [ NewLog(op) EXCEPT !.alerts =
                                      [ k \in 1..calls |-> "not_configured" ] ])
            /\ UNCHANGED writes
       ELSE /\ log' = Append(log, [ NewLog(op) EXCEPT !.writes = calls ])
            /\ writes' = writes \o [ k \in 1..calls |->
                             [ intent |-> Len(log) + 1, op |-> "handleSave",
                               req |-> handleSaveRequest(editing, editValue) ] ]
    /\ EndToggleRun
    /\ UNCHANGED << mounted, dbVars, fetches, appVars, inlineVars, editorVars, popoverVars,
                    personaMgrVars, deleted, queryErrors, pure >>

\* onBlur of the inline input
handleBlur == handleSaveCalls("blur", 1)

\* handleKeyDown, Enter without shift: handleSave(), then blur() on the input, whose
\* onBlur is handleSave again, while `editing` is still set
handleKeyDownEnter == handleSaveCalls("enter", 2)

\* handleKeyDown, Escape
handleKeyDownEscape ==
    /\ editing # NULL
    /\ editing' = NULL
    /\ editValue' = <<>>
    /\ UNCHANGED editorStateVars
    /\ RenderJourneyEditors
    /\ EndToggleRun
    /\ UNCHANGED << mounted, dbVars, writes, fetches, appVars, popoverVars, personaMgrVars,
                    log, deleted, queryErrors, pure >>

----
\* Pain point, touchpoint and metric editors

\* the restriction of a record to some of its fields
Restrict(r, keys) == [ c \in keys |-> r[c] ]

\* JSON.stringify drops the fields whose value is undefined
painPointPayload(form) ==
    Restrict(form, { c \in DOMAIN form : c = "severity" => form[c] # UndefinedString })

metricPayload(form) ==
    Restrict(form, { c \in DOMAIN form : c = "metric_goal" => form[c] # UNDEFINED })

\* a gesture on the children of DeveloperJourney: its state is unchanged, no render
KeepJourney ==
    UNCHANGED << mounted, dbVars, fetches, appVars, inlineVars, editorStateVars,
                 popoverVars, personaMgrVars, deleted, queryErrors, pure >>

\* setEditingPainPoint / setEditingTouchpoint / setEditingMetric from a button of a step
setEditors(pp, tp, metric) ==
    /\ editingPainPoint' = pp
    /\ editingTouchpoint' = tp
    /\ editingMetric' = metric
    /\ RenderJourneyEditors
    /\ EndToggleRun
    /\ UNCHANGED << mounted, dbVars, writes, fetches, appVars, inlineVars, popoverVars,
                    personaMgrVars, log, deleted, queryErrors, pure >>

\* "Add Pain Point" (index.tsx:2041), the edit button of a pain point (2034), Cancel (2039)
setEditingPainPoint(pp) ==
    /\ pp # editingPainPoint
    /\ setEditors(pp, editingTouchpoint, editingMetric)

newPainPoint(stepId) ==
    [ step_id |-> stepId, description |-> <<>>, severity |-> UndefinedString ]

\* onChange of the fields of PainPointEditor
setPainPointForm(description, severity) ==
    /\ ppForm # NULL
    /\ ppForm' = [ ppForm EXCEPT !.description = description, !.severity = severity ]
    /\ ppForm' # ppForm
    /\ EndToggleRun
    /\ UNCHANGED << mounted, dbVars, writes, fetches, appVars, inlineVars, editorStateVars,
                    tpForm, metricForm, popoverVars, personaMgrVars, log, deleted,
                    queryErrors, pure >>

\* a save of the pain point that does not look at the description
savePainPointUnchecked ==
    /\ CanAct
    /\ ppForm # NULL
    /\ IF ~configured THEN Refuse("savePainPoint", "not_configured")
       ELSE Send("savePainPoint", [ table |-> "pain_points", kind |-> "upsert",
                                    row |-> painPointPayload(ppForm) ])
    /\ EndToggleRun
    /\ UNCHANGED ppForm /\ UNCHANGED << tpForm, metricForm >>
    /\ KeepJourney

\* PainPointEditor.handleSave, then handleSavePainPoint up to its await
savePainPoint ==
    /\ CanAct
    /\ ppForm # NULL
    /\ IF Trim(ppForm.description) = <<>> THEN Refuse("savePainPoint", "validation")
       ELSE IF ~configured THEN Refuse("savePainPoint", "not_configured")
       ELSE Send("savePainPoint", [ table |-> "pain_points", kind |-> "upsert",
                                    row |-> painPointPayload(ppForm) ])
    /\ EndToggleRun
    /\ UNCHANGED ppForm /\ UNCHANGED << tpForm, metricForm >>
    /\ KeepJourney

\* handleDeletePainPoint up to its await
handleDeletePainPoint(painPointId) ==
    /\ CanAct
    /\ IF ~configured THEN Refuse("deletePainPoint", "not_configured")
       ELSE Send("deletePainPoint", [ table |-> "pain_points", kind |-> "delete",
                                      match |-> [ id |-> painPointId ] ])
    /\ EndToggleRun
    /\ UNCHANGED << ppForm, tpForm, metricForm >>
    /\ KeepJourney

setEditingTouchpoint(tp) ==
    /\ tp # editingTouchpoint
    /\ setEditors(editingPainPoint, tp, editingMetric)

newTouchpoint(stepId) ==
    [ step_id |-> stepId, title |-> <<>>, touchpoint_type |-> "Blog Post" ]

setTouchpointForm(title, type) ==
    /\ tpForm # NULL
    /\ tpForm' = [ tpForm EXCEPT !.title = title, !.touchpoint_type = type ]
    /\ tpForm' # tpForm
    /\ EndToggleRun
    /\ UNCHANGED << mounted, dbVars, writes, fetches, appVars, inlineVars, editorStateVars,
                    ppForm, metricForm, popoverVars, personaMgrVars, log, deleted,
                    queryErrors, pure >>

\* TouchpointEditor.handleSave, then handleSaveTouchpoint up to its await
saveTouchpoint ==
    /\ CanAct
    /\ tpForm # NULL
    /\ IF Trim(tpForm.title) = <<>> THEN Refuse("saveTouchpoint", "validation")
       ELSE IF ~configured THEN Refuse("saveTouchpoint", "not_configured")
       ELSE Send("saveTouchpoint", [ table |-> "marketing_touchpoints", kind |-> "upsert",
                                     row |-> tpForm ])
    /\ EndToggleRun
    /\ UNCHANGED << ppForm, tpForm, metricForm >>
    /\ KeepJourney

handleDeleteTouchpoint(touchpointId) ==
    /\ CanAct
    /\ IF ~configured THEN Refuse("deleteTouchpoint", "not_configured")
       ELSE Send("deleteTouchpoint", [ table |-> "marketing_touchpoints", kind |-> "delete",
                                       match |-> [ id |-> touchpointId ] ])
    /\ EndToggleRun
    /\ UNCHANGED << ppForm, tpForm, metricForm >>
    /\ KeepJourney

setEditingMetric(metric) ==
    /\ metric # editingMetric
    /\ setEditors(editingPainPoint, editingTouchpoint, metric)

newMetric(stepId) ==
    [ step_id |-> stepId, metric_name |-> <<>>, measurement_type |-> "count" ]

\* onChange of the fields of MetricEditor; an empty goal input gives undefined
setMetricForm(name, goal, type) ==
    /\ metricForm # NULL
    /\ metricForm' = [ c \in DOMAIN metricForm \cup { "metric_goal" } |->
                         CASE c = "metric_name" -> name
                           [] c = "metric_goal" -> goal
                           [] c = "measurement_type" -> type
                           [] OTHER -> metricForm[c] ]
    /\ metricForm' # metricForm
    /\ EndToggleRun
    /\ UNCHANGED << mounted, dbVars, writes, fetches, appVars, inlineVars, editorStateVars,
                    ppForm, tpForm, popoverVars, personaMgrVars, log, deleted,
                    queryErrors, pure >>

\* MetricEditor.handleSave, then handleSaveMetric up to its await
saveMetric ==
    /\ CanAct
    /\ metricForm # NULL
    /\ IF Trim(metricForm.metric_name) = <<>> THEN Refuse("saveMetric", "validation")
       ELSE IF ~configured THEN Refuse("saveMetric", "not_configured")
       ELSE Send("saveMetric", [ table |-> "journey_metrics", kind |-> "upsert",
                                 row |-> metricPayload(metricForm) ])
    /\ EndToggleRun
    /\ UNCHANGED << ppForm, tpForm, metricForm >>
    /\ KeepJourney

handleDeleteMetric(metricId) ==
    /\ CanAct
    /\ IF ~configured THEN Refuse("deleteMetric", "not_configured")
       ELSE Send("deleteMetric", [ table |-> "journey_metrics", kind |-> "delete",
                                   match |-> [ id |-> metricId ] ])
    /\ EndToggleRun
    /\ UNCHANGED << ppForm, tpForm, metricForm >>
    /\ KeepJourney

----
\* Personas of a step

\* the + button next to the persona chips of a step (index.tsx:2023)
openPersonaPopover(step) ==
    /\ personaPopoverAnchor' = TRUE
    /\ activeStepForPersona' = step
    /\ UNCHANGED editorStateVars
    /\ RenderJourneyEditors
    /\ EndToggleRun
    /\ UNCHANGED << mounted, dbVars, writes, fetches, appVars, inlineVars, personaMgrVars,
                    log, deleted, queryErrors, pure >>

\* mousedown outside the popover and its anchor (handleClickOutside)
handleClickOutside ==
    /\ personaPopoverAnchor
    /\ personaPopoverAnchor' = FALSE
    /\ activeStepForPersona' = NULL
    /\ UNCHANGED editorStateVars
    /\ RenderJourneyEditors
    /\ EndToggleRun
    /\ UNCHANGED << mounted, dbVars, writes, fetches, appVars, inlineVars, personaMgrVars,
                    log, deleted, queryErrors, pure >>

\* activeStepForPersona?.personas.some(p => p.id === persona.id)
isSelected(active, persona) ==
    /\ active # NULL
    /\ \E i \in DOMAIN active.personas : active.personas[i].id = persona.id

togglePersonaRequest(active, stepId, persona) ==
    IF isSelected(active, persona)
    THEN [ table |-> "persona_journey_steps", kind |-> "delete",
           match |-> [ persona_id |-> persona.id, step_id |-> stepId ] ]
    ELSE [ table |-> "persona_journey_steps", kind |-> "insert",
           row |-> [ persona_id |-> persona.id, step_id |-> stepId ] ]

\* the run of consecutive toggles of one persona on one step, each made once the
\* previous one and its refetch have completed, all from the same control
ToggleRunAfter(stepId, persona, via) ==
    IF /\ toggleRun # NULL
       /\ Quiescent
       /\ toggleRun.step = stepId /\ toggleRun.persona = persona.id /\ toggleRun.via = via
    THEN [ toggleRun EXCEPT !.count = @ + 1 ]
    ELSE IF Quiescent
    THEN [ step |-> stepId, persona |-> persona.id, via |-> via, count |-> 1,
           before |-> db.assoc ]
    ELSE NULL

\* togglePersonaForStep up to its await; via is "chip" (index.tsx:2020) or
\* "popover" (index.tsx:2129)
togglePersonaForStep(stepId, persona, via) ==
    /\ CanAct
    /\ IF ~configured THEN Refuse("togglePersona", "not_configured")
       ELSE Send("togglePersona",
                 togglePersonaRequest(activeStepForPersona, stepId, persona))
    /\ toggleRun' = IF configured THEN ToggleRunAfter(stepId, persona, via) ELSE NULL
    /\ UNCHANGED << ppForm, tpForm, metricForm >>
    /\ KeepJourney

----
\* PersonaManagerModal

\* the state of the manager changes: it renders, and PersonaForm is mounted anew
setPersonaManager(open, persona) ==
    /\ isPersonaModalOpen' = open
    /\ editingPersona' = persona
    /\ RenderPersonaManager
    /\ EndToggleRun
    /\ UNCHANGED << mounted, dbVars, writes, fetches, appVars, inlineVars, popoverVars,
                    log, deleted, queryErrors, pure >>

\* onOpenPersonaManager / onClose: App renders, DeveloperJourney with it
setPersonaModalOpen(open) ==
    /\ open # isPersonaModalOpen
    /\ setPersonaManager(open, editingPersona)
    /\ UNCHANGED editorStateVars
    /\ RenderJourneyEditors

\* the edit button of a persona, "Create New Persona" ({}), Cancel (null)
setEditingPersona(persona) ==
    /\ isPersonaModalOpen
    /\ persona # editingPersona
    /\ setPersonaManager(isPersonaModalOpen, persona)
    /\ UNCHANGED editorVars

\* onChange of the name field of PersonaForm
setPersonaForm(name) ==
    /\ isPersonaModalOpen
    /\ personaForm # NULL
    /\ name # personaForm.name
    /\ personaForm' = [ personaForm EXCEPT !.name = name ]
    /\ EndToggleRun
    /\ UNCHANGED << mounted, dbVars, writes, fetches, appVars, inlineVars, editorVars,
                    popoverVars, isPersonaModalOpen, editingPersona, log, deleted,
                    queryErrors, pure >>

\* const { id, ...dataToSave } = formData; upsert(id ? { id, ...dataToSave } : dataToSave)
savePersonaRequest(form) ==
    [ table |-> "developer_personas", kind |-> "upsert",
      row |-> IF form.id # UNDEFINED THEN [ id |-> form.id.value, name |-> form.name ]
              ELSE [ name |-> form.name ] ]

\* PersonaManagerModal.handleSave up to its await
savePersona ==
    /\ CanAct
    /\ isPersonaModalOpen
    /\ personaForm # NULL
    /\ IF ~configured THEN Refuse("savePersona", "not_configured")
       ELSE IF Trim(personaForm.name) = <<>> THEN Refuse("savePersona", "validation")
       ELSE Send("savePersona", savePersonaRequest(personaForm))
    /\ EndToggleRun
    /\ UNCHANGED << mounted, dbVars, fetches, appVars, inlineVars, editorVars, popoverVars,
                    personaMgrVars, deleted, queryErrors, pure >>

\* PersonaManagerModal.handleDelete up to its await
deletePersona(id, confirm) ==
    /\ CanAct
    /\ isPersonaModalOpen
    /\ IF ~configured THEN Refuse("deletePersona", "not_configured")
       ELSE IF confirm
       THEN /\ log' = Append(log, [ NewLog("deletePersona") EXCEPT !.writes = 1,
                                                                !.confirmed = "yes" ])
            /\ writes' = Append(writes, [ intent |-> Len(log) + 1, op |-> "deletePersona",
                                          req |-> [ table |-> "developer_personas",
                                                    kind |-> "delete",
                                                    match |-> [ id |-> id ] ] ])
       ELSE /\ log' = Append(log, [ NewLog("deletePersona") EXCEPT !.confirmed = "no" ])
            /\ UNCHANGED writes
    /\ EndToggleRun
    /\ UNCHANGED << mounted, dbVars, fetches, appVars, inlineVars, editorVars, popoverVars,
                    personaMgrVars, deleted, queryErrors, pure >>

----
\* The gateway executes a write and the handler resumes after its await

SaveOps == { "savePainPoint", "saveTouchpoint", "saveMetric" }

\* the ids a successful delete of a stage removes: the stage, its steps and what they own
CascadeIds(d, stageId) ==
    LET steps == { d.steps[i].id : i \in { j \in DOMAIN d.steps : d.steps[j].stage_id = stageId } }
        Owned(rows) == { rows[i].id : i \in { j \in DOMAIN rows : rows[j].step_id \in steps } }
    IN  { stageId } \cup steps \cup Owned(d.pain_points) \cup Owned(d.touchpoints)
                    \cup Owned(d.metrics)

\* reply: the gateway is reached and answers (TRUE) or the request fails on the way
WriteComplete(i, reply) ==
    /\ i \in DOMAIN writes
    /\ reply \/ CanFail
    /\ LET w == writes[i]
           res == IF reply THEN GatewayApply(db, w.req, nextId)
                  ELSE [ error |-> TRUE, db |-> db ]
           ok == ~res.error
           appRenders == ok /\ ~isLoading
           inlineChanges == w.op = "handleSave" /\ (editing # NULL \/ editValue # <<>>)
       IN  /\ db' = res.db
           /\ nextId' = IF ok /\ UsesNewId(db, w.req) THEN nextId + 1 ELSE nextId
           /\ writes' = RemoveAt(writes, i)
           /\ log' = [ log EXCEPT ![w.intent] =
                         IF ok THEN [ @ EXCEPT !.refetches = @ + 1 ]
                         ELSE [ @ EXCEPT !.errors = @ + 1,
                                         !.alerts = Append(@, "failed") ] ]
           /\ deleted' = IF ok /\ w.op = "deleteStage"
                         THEN deleted \cup CascadeIds(db, w.req.match.id)
                         ELSE deleted
           \* onDataUpdate()
           /\ isLoading' = (isLoading \/ ok)
           /\ fetches' = IF ok THEN Append(fetches, [ NewFetch EXCEPT !.deletedAtIssue = deleted' ])
                         ELSE fetches
           \* setEditing(null); setEditValue('') on both paths of handleSave
           /\ editing' = IF w.op = "handleSave" THEN NULL ELSE editing
           /\ editValue' = IF w.op = "handleSave" THEN <<>> ELSE editValue
           \* setEditingPainPoint(null) and the like on success
           /\ editingPainPoint' = IF ok /\ w.op = "savePainPoint" THEN NULL
                                  ELSE editingPainPoint
           /\ editingTouchpoint' = IF ok /\ w.op = "saveTouchpoint" THEN NULL
                                   ELSE editingTouchpoint
           /\ editingMetric' = IF ok /\ w.op = "saveMetric" THEN NULL ELSE editingMetric
           /\ editingPersona' = IF ok /\ w.op = "savePersona" THEN NULL ELSE editingPersona
           /\ IF appRenders \/ inlineChanges \/ (ok /\ w.op \in SaveOps)
              THEN RenderJourneyEditors
              ELSE UNCHANGED << ppForm, tpForm, metricForm >>
           /\ IF appRenders \/ editingPersona' # editingPersona
              THEN RenderPersonaManager
              ELSE UNCHANGED personaForm
    /\ UNCHANGED << mounted, configured, journeyStages, developerPersonas, lastFetched,
                    popoverVars, isPersonaModalOpen, toggleRun, queryErrors, pure >>

----
\* Initial states

\* a journey as the gateway may hold it; the rows of journey_stages are not stored
\* in the order of stage_order
SeedDb ==
    [ stages |-> << [ id |-> 1, name |-> <<"b">>, stage_order |-> 2 ],
                    [ id |-> 2, name |-> <<"a">>, stage_order |-> 1 ] >>,
      steps |-> << [ id |-> 3, stage_id |-> 1, user_action |-> <<"a">>,
                     user_goal |-> <<"b">> ] >>,
      personas |-> << [ id |-> 4, name |-> <<"b">> ], [ id |-> 5, name |-> <<"a">> ] >>,
      assoc |-> << [ persona_id |-> 4, step_id |-> 3 ] >>,
      pain_points |-> << [ id |-> 6, step_id |-> 3, description |-> <<"a">>,
                           severity |-> "high" ] >>,
      touchpoints |-> << [ id |-> 7, step_id |-> 3, title |-> <<"a">>,
                           touchpoint_type |-> "Docs" ] >>,
      metrics |-> << [ id |-> 8, step_id |-> 3, metric_name |-> <<"a">>,
                       metric_goal |-> NULL, measurement_type |-> "count" ] >>,
      audits |-> << [ id |-> 9, step_id |-> 3 ] >> ]

RECURSIVE MaxOf(_)
MaxOf(S) == IF S = {} THEN 0
            ELSE LET x == CHOOSE x \in S : TRUE
                     m == MaxOf(S \ { x })
                 IN  IF x > m THEN x ELSE m

\* the ids of all rows of all tables that have one
AllIds(d) == IdsOf(d.stages) \cup IdsOf(d.steps) \cup IdsOf(d.personas)
             \cup IdsOf(d.pain_points) \cup IdsOf(d.touchpoints) \cup IdsOf(d.metrics)
             \cup IdsOf(d.audits)

\* the state of App and its children after the first render (useState initial values)
InitClient ==
    /\ mounted = FALSE
    /\ writes = <<>>
    /\ fetches = <<>>
    /\ isLoading = TRUE
    /\ journeyStages = <<>>
    /\ developerPersonas = <<>>
    /\ editing = NULL
    /\ editValue = <<>>
    /\ editingPainPoint = NULL
    /\ ppForm = NULL
    /\ editingTouchpoint = NULL
    /\ tpForm = NULL
    /\ editingMetric = NULL
    /\ metricForm = NULL
    /\ personaPopoverAnchor = FALSE
    /\ activeStepForPersona = NULL
    /\ isPersonaModalOpen = FALSE
    /\ editingPersona = NULL
    /\ personaForm = NULL
    /\ log = <<>>
    /\ lastFetched = <<>>
    /\ deleted = {}
    /\ toggleRun = NULL
    /\ queryErrors = 0

InitGateway ==
    /\ configured \in BOOLEAN
    /\ db \in (IF configured THEN { EmptyDb, SeedDb } ELSE { EmptyDb })
    /\ nextId = MaxOf(AllIds(SeedDb)) + 1

Init ==
    /\ InitGateway
    /\ InitClient
    /\ pure = NULL

\* a configured gateway that holds a journey
InitSeed ==
    /\ configured = TRUE
    /\ db = SeedDb
    /\ nextId = MaxOf(AllIds(SeedDb)) + 1
    /\ InitClient
    /\ pure = NULL

----
\* The gateway and the promises of the client, common to every specification

Async ==
    \/ Mount
    \/ \E i \in DOMAIN fetches, ok \in BOOLEAN : GatewayReadPersonas(i, ok)
    \/ \E i \in DOMAIN fetches, ok \in BOOLEAN : GatewayReadStages(i, ok)
    \/ \E i \in DOMAIN fetches : FetchResolve(i)
    \/ \E i \in DOMAIN writes, reply \in BOOLEAN : WriteComplete(i, reply)

\* the steps the journey view shows
TreeSteps == FlatMap(journeyStages, LAMBDA stage : stage.steps)

\* The gestures on stages, steps and their inline texts, as the rendered view offers them
StageGestures ==
    /\ ViewReady
    /\ \/ addStage
       \/ \E i \in DOMAIN journeyStages, confirm \in BOOLEAN :
             deleteStage(journeyStages[i].id, confirm)
       \/ \E i \in DOMAIN journeyStages : addStep(journeyStages[i].id)
       \/ \E i \in DOMAIN TreeSteps, confirm \in BOOLEAN :
             deleteStep(TreeSteps[i].id, confirm)

InlineGestures ==
    /\ ViewReady
    /\ \/ \E i \in DOMAIN journeyStages :
             handleEditClick("stage", "name", journeyStages[i].id, journeyStages[i].name)
       \/ \E i \in DOMAIN TreeSteps :
             \/ handleEditClick("step", "action", TreeSteps[i].id, TreeSteps[i].user_action)
             \/ handleEditClick("step", "goal", TreeSteps[i].id, TreeSteps[i].user_goal)
       \/ \E value \in EditInputs : setEditValue(value)
       \/ handleBlur
       \/ handleKeyDownEnter
       \/ handleKeyDownEscape

\* the editor of a step is rendered when the step is in the tree
Shown(e) == e # NULL /\ \E i \in DOMAIN TreeSteps : TreeSteps[i].id = e.step_id

TreePainPoints == FlatMap(TreeSteps, LAMBDA step : step.pain_points)
TreeTouchpoints == FlatMap(TreeSteps, LAMBDA step : step.touchpoints)
TreeMetrics == FlatMap(TreeSteps, LAMBDA step : step.metrics)

\* the number of editors open, not counting the one named
OpenForms(except) ==
    Cardinality({ n \in { "pp", "tp", "metric", "persona" } \ { except } :
        CASE n = "pp" -> editingPainPoint # NULL
          [] n = "tp" -> editingTouchpoint # NULL
          [] n = "metric" -> editingMetric # NULL
          [] n = "persona" -> editingPersona # NULL })

MayOpen(form) == OpenForms(form) < MaxOpenForms

SeverityInputs == { "low", "high" }
TypeInputs == { "Email" }
GoalInputs == { UNDEFINED, Some(5) }
MeasurementInputs == { "percentage" }

PainPointGestures ==
    /\ ViewReady
    /\ \/ /\ MayOpen("pp")
          /\ \/ \E i \in DOMAIN TreeSteps :
                   setEditingPainPoint(newPainPoint(TreeSteps[i].id))
             \/ \E i \in DOMAIN TreePainPoints : setEditingPainPoint(TreePainPoints[i])
       \/ \E i \in DOMAIN TreePainPoints : handleDeletePainPoint(TreePainPoints[i].id)
       \/ /\ Shown(editingPainPoint)
          /\ \/ setEditingPainPoint(NULL)
             \/ \E d \in TextInputs, sev \in SeverityInputs : setPainPointForm(d, sev)
             \/ savePainPoint

TouchpointGestures ==
    /\ ViewReady
    /\ \/ /\ MayOpen("tp")
          /\ \/ \E i \in DOMAIN TreeSteps :
                   setEditingTouchpoint(newTouchpoint(TreeSteps[i].id))
             \/ \E i \in DOMAIN TreeTouchpoints : setEditingTouchpoint(TreeTouchpoints[i])
       \/ \E i \in DOMAIN TreeTouchpoints : handleDeleteTouchpoint(TreeTouchpoints[i].id)
       \/ /\ Shown(editingTouchpoint)
          /\ \/ setEditingTouchpoint(NULL)
             \/ \E t \in TextInputs, type \in TypeInputs : setTouchpointForm(t, type)
             \/ saveTouchpoint

MetricGestures ==
    /\ ViewReady
    /\ \/ /\ MayOpen("metric")
          /\ \/ \E i \in DOMAIN TreeSteps : setEditingMetric(newMetric(TreeSteps[i].id))
             \/ \E i \in DOMAIN TreeMetrics : setEditingMetric(TreeMetrics[i])
       \/ \E i \in DOMAIN TreeMetrics : handleDeleteMetric(TreeMetrics[i].id)
       \/ /\ Shown(editingMetric)
          /\ \/ setEditingMetric(NULL)
             \/ \E n \in TextInputs, g \in GoalInputs, type \in MeasurementInputs :
                   setMetricForm(n, g, type)
             \/ saveMetric

PersonaGestures ==
    /\ ViewReady
    /\ \/ \E i \in DOMAIN TreeSteps : openPersonaPopover(TreeSteps[i])
       \/ handleClickOutside
       \/ \E i \in DOMAIN TreeSteps : \E k \in DOMAIN TreeSteps[i].personas :
             togglePersonaForStep(TreeSteps[i].id, TreeSteps[i].personas[k], "chip")
       \/ /\ personaPopoverAnchor
          /\ activeStepForPersona # NULL
          /\ \E k \in DOMAIN developerPersonas :
                togglePersonaForStep(activeStepForPersona.id, developerPersonas[k], "popover")

\* the persona manager: opening and closing it, and its form
PersonaFormGestures ==
    /\ mounted
    /\ \/ ViewReady /\ setPersonaModalOpen(TRUE)
       \/ isPersonaModalOpen /\ setPersonaModalOpen(FALSE)
       \/ /\ MayOpen("persona")
          /\ \/ \E k \in DOMAIN developerPersonas : setEditingPersona(developerPersonas[k])
             \/ editingPersona = NULL /\ setEditingPersona(EmptyObject)
       \/ editingPersona # NULL /\ setEditingPersona(NULL)
       \/ \E name \in TextInputs : setPersonaForm(name)
       \/ savePersona

PersonaDeleteGestures ==
    \E k \in DOMAIN developerPersonas, confirm \in BOOLEAN :
        deletePersona(developerPersonas[k].id, confirm)

----
\* The handlers of a client that has no gateway

\* Without a gateway nothing is fetched, so the view never shows a stage and offers
\* Add Stage and the persona manager only. To reach the guard of every handler, each
\* is called here with the arguments the view passes for the seeded journey.
HarnessStage == SeedDb.stages[1]
HarnessStep == SeedDb.steps[1]
HarnessPersona == SeedDb.personas[1]

InitUnconfigured ==
    /\ configured = FALSE
    /\ db = EmptyDb
    /\ nextId = MaxOf(AllIds(SeedDb)) + 1
    /\ InitClient
    /\ pure = NULL

StageHandlers ==
    \/ addStage
    \/ \E confirm \in BOOLEAN : deleteStage(HarnessStage.id, confirm)
    \/ addStep(HarnessStage.id)
    \/ \E confirm \in BOOLEAN : deleteStep(HarnessStep.id, confirm)

InlineHandlers ==
    \/ handleEditClick("stage", "name", HarnessStage.id, HarnessStage.name)
    \/ handleEditClick("step", "goal", HarnessStep.id, HarnessStep.user_goal)
    \/ handleBlur
    \/ handleKeyDownEnter

EditorHandlers ==
    \/ MayOpen("pp") /\ setEditingPainPoint(newPainPoint(HarnessStep.id))
    \/ \E d \in TextInputs, sev \in SeverityInputs : setPainPointForm(d, sev)
    \/ savePainPoint
    \/ handleDeletePainPoint(HarnessStep.id)
    \/ MayOpen("tp") /\ setEditingTouchpoint(newTouchpoint(HarnessStep.id))
    \/ \E t \in TextInputs, type \in TypeInputs : setTouchpointForm(t, type)
    \/ saveTouchpoint
    \/ handleDeleteTouchpoint(HarnessStep.id)
    \/ MayOpen("metric") /\ setEditingMetric(newMetric(HarnessStep.id))
    \/ \E n \in TextInputs, g \in GoalInputs, type \in MeasurementInputs :
          setMetricForm(n, g, type)
    \/ saveMetric
    \/ handleDeleteMetric(HarnessStep.id)

PersonaHandlers ==
    \/ \E via \in { "chip", "popover" } :
          togglePersonaForStep(HarnessStep.id, HarnessPersona, via)
    \/ \E confirm \in BOOLEAN : deletePersona(HarnessPersona.id, confirm)

NextUnconfigured ==
    \/ Mount
    \/ mounted /\ StageHandlers
    \/ mounted /\ InlineHandlers
    \/ mounted /\ EditorHandlers
    \/ mounted /\ PersonaHandlers
    \/ PersonaFormGestures

----
\* JourneyReportModal: the persona summary of reportData

FullJourney == [ full_journey |-> TRUE ]

relevantStages(stages, filter) ==
    IF filter = FullJourney THEN stages
    ELSE SelectSeq(stages, LAMBDA s : s.id = filter.id)

\* new Set(stage.steps.flatMap(step => step.personas.map(p => p.id))).size
stagePersonas(stage) ==
    Range(FlatMap(stage.steps, LAMBDA step : MapSeq(step.personas, LAMBDA p : p.id)))

\* a summary that counts every persona of every step
personaSummaryPerStep(stages) ==
    MapSeq(stages, LAMBDA stage :
        [ stageName |-> stage.name,
          count |-> Len(FlatMap(stage.steps, LAMBDA step : step.personas)) ])

personaSummary(stages) ==
    MapSeq(stages, LAMBDA stage : [ stageName |-> stage.name,
                                    count |-> Cardinality(stagePersonas(stage)) ])

\* relevantStages.flatMap(s => s.steps.map(step => ({ ...step, stageName: s.name })))
allSteps(stages) ==
    FlatMap(stages, LAMBDA stage :
        MapSeq(stage.steps, LAMBDA step :
            [ c \in DOMAIN step \cup { "stageName" } |->
                IF c = "stageName" THEN stage.name ELSE step[c] ]))

\* allSteps.flatMap(step => step[field].map(x => ({...x, stepAction, stageName})))
annotated(steps, field) ==
    FlatMap(steps, LAMBDA step :
        MapSeq(step[field], LAMBDA x :
            [ c \in DOMAIN x \cup { "stepAction", "stageName" } |->
                IF c = "stepAction" THEN step.user_action
                ELSE IF c = "stageName" THEN step.stageName
                ELSE x[c] ]))

\* the key of a pain point without the default bucket
severityKeyRaw(pp) == pp.severity

\* pp.severity || 'none'
severityKey(pp) ==
    IF pp.severity \in { NullString, UndefinedString, "" } THEN "none" ELSE pp.severity

\* String(tp.touchpoint_type), the property key of the histogram
typeKey(tp) == tp.touchpoint_type

\* keys.reduce((acc, k) => { acc[k] = (acc[k] || 0) + 1; return acc }, {})
RECURSIVE reduceCount(_, _)
reduceCount(keys, acc) ==
    IF keys = <<>> THEN acc
    ELSE LET k == Head(keys)
             old == IF k \in DOMAIN acc THEN acc[k] ELSE 0
         IN  reduceCount(Tail(keys),
                         [ x \in DOMAIN acc \cup { k } |-> IF x = k THEN old + 1 ELSE acc[x] ])

\* {} as the initial accumulator
NoBuckets == [ x \in {} |-> 0 ]

reportData(stages, filter) ==
    LET relevant == relevantStages(stages, filter)
        steps == allSteps(relevant)
        painPoints == annotated(steps, "pain_points")
        touchpoints == annotated(steps, "touchpoints")
    IN  IF relevant = <<>> THEN NULL
        ELSE [ personaSummary |-> personaSummary(relevant),
               painPoints |-> painPoints,
               painPointSummary |->
                   [ total |-> Len(painPoints),
                     bySeverity |-> reduceCount(MapSeq(painPoints, severityKey), NoBuckets) ],
               touchpoints |-> touchpoints,
               touchpointSummary |->
                   [ total |-> Len(touchpoints),
                     byType |-> reduceCount(MapSeq(touchpoints, typeKey), NoBuckets) ] ]

\* the stages a report is asked for: one stage of up to MaxReportSteps steps whose
\* persona lists are drawn from three personas, alone or followed by a second stage
MaxReportSteps == 2

ReportPersona(id) == [ id |-> id, name |-> <<"p">> ]

ReportPersonaLists ==
    { <<>>, << ReportPersona(4) >>, << ReportPersona(5) >>, << ReportPersona(6) >>,
      << ReportPersona(4), ReportPersona(5) >>, << ReportPersona(4), ReportPersona(6) >>,
      << ReportPersona(5), ReportPersona(6) >>,
      << ReportPersona(4), ReportPersona(5), ReportPersona(6) >> }

ReportStep(id, stageId, personas) ==
    [ id |-> id, stage_id |-> stageId, user_action |-> <<"a">>, user_goal |-> <<"g">>,
      personas |-> personas, pain_points |-> <<>>, touchpoints |-> <<>>,
      metrics |-> <<>>, audits |-> <<>> ]

ReportStage(id, order, lists) ==
    [ id |-> id, name |-> <<"a">>, stage_order |-> order,
      steps |-> [ k \in DOMAIN lists |-> ReportStep(10 * id + k, id, lists[k]) ] ]

ReportStepLists ==
    UNION { [ 1..n -> ReportPersonaLists ] : n \in 0..MaxReportSteps }

ReportInputs ==
    { << ReportStage(1, 1, lists) >> : lists \in ReportStepLists }
    \cup { << ReportStage(1, 1, lists), ReportStage(2, 2, << << ReportPersona(4) >> >>) >> :
           lists \in ReportStepLists }

ReportFilters == { FullJourney, [ id |-> 1 ], [ id |-> 3 ] }

InitPure(inputs) ==
    /\ configured = FALSE
    /\ db = EmptyDb
    /\ nextId = MaxOf(AllIds(SeedDb)) + 1
    /\ InitClient
    /\ pure \in inputs

PureUnchanged ==
    UNCHANGED << configured, mounted, db, nextId, writes, fetches, isLoading, journeyStages,
                 developerPersonas, editing, editValue, editingPainPoint, ppForm,
                 editingTouchpoint, tpForm, editingMetric, metricForm, personaPopoverAnchor,
                 activeStepForPersona, isPersonaModalOpen, editingPersona, personaForm, log,
                 lastFetched, deleted, toggleRun, queryErrors >>

InitReport ==
    InitPure({ [ fn |-> "reportData", stages |-> s, filter |-> FullJourney, done |-> FALSE,
                 out |-> NULL ] : s \in ReportInputs })

\* the memo of the report modal is computed for its stages and filter
computeReportData ==
    /\ pure.fn = "reportData"
    /\ ~pure.done
    /\ pure' = [ pure EXCEPT !.done = TRUE, !.out = reportData(pure.stages, pure.filter) ]
    /\ PureUnchanged

\* the stage selector of the report: the memo is stale until it is computed again
setFilter(filter) ==
    /\ pure.fn = "reportData"
    /\ filter # pure.filter
    /\ pure' = [ pure EXCEPT !.filter = filter, !.done = FALSE, !.out = NULL ]
    /\ PureUnchanged

\* the stages a summary is asked for: the steps carry pain points (with a severity or
\* none) and touchpoints
MaxSummaryItems == 2

SummarySeverities == { "low", "high", NullString }
SummaryTypes == { "Email", "Docs" }

SummaryPainPoints ==
    UNION { [ 1..n -> { [ id |-> 6, description |-> <<"d">>, severity |-> sev ] :
                        sev \in SummarySeverities } ] : n \in 0..MaxSummaryItems }

SummaryTouchpoints ==
    UNION { [ 1..n -> { [ id |-> 7, title |-> <<"t">>, touchpoint_type |-> type ] :
                        type \in SummaryTypes } ] : n \in 0..MaxSummaryItems }

SummaryStep(id, stageId, painPoints, touchpoints) ==
    [ ReportStep(id, stageId, <<>>) EXCEPT !.pain_points = painPoints,
                                           !.touchpoints = touchpoints ]

SummaryFixedStep(id, stageId) ==
    SummaryStep(id, stageId,
                << [ id |-> 6, description |-> <<"d">>, severity |-> "high" ] >>,
                << [ id |-> 7, title |-> <<"t">>, touchpoint_type |-> "Email" ] >>)

SummaryStepLists ==
    { <<>> }
    \cup { << SummaryStep(11, 1, pps, tps) >> :
           pps \in SummaryPainPoints, tps \in SummaryTouchpoints }
    \cup { << SummaryStep(11, 1, pps, tps), SummaryFixedStep(12, 1) >> :
           pps \in SummaryPainPoints, tps \in SummaryTouchpoints }

SummaryStage(id, order, steps) ==
    [ id |-> id, name |-> <<"a">>, stage_order |-> order, steps |-> steps ]

SummaryInputs ==
    { << SummaryStage(1, 1, steps) >> : steps \in SummaryStepLists }
    \cup { << SummaryStage(1, 1, steps), SummaryStage(2, 2, << SummaryFixedStep(21, 2) >>) >> :
           steps \in SummaryStepLists }

InitSummary ==
    InitPure({ [ fn |-> "reportData", stages |-> s, filter |-> FullJourney, done |-> FALSE,
                 out |-> NULL ] : s \in SummaryInputs })

NextReport == computeReportData \/ \E f \in ReportFilters : setFilter(f)

SpecReport == InitReport /\ [][NextReport]_vars

SpecSummary == InitSummary /\ [][NextReport]_vars

----
\* JourneyReportModal: the export of the pain points as CSV

DQ == "\""
COMMA == ","
LF == "\n"

\* a JavaScript value of a row: a string (its characters), a number, or null
JsString(chars) == [ type |-> "string", str |-> chars, num |-> 0 ]
JsNumber(n) == [ type |-> "number", str |-> <<>>, num |-> n ]
JsNull == [ type |-> "null", str |-> <<>>, num |-> 0 ]

Falsy(v) ==
    \/ v.type = "null"
    \/ v.type = "string" /\ v.str = <<>>
    \/ v.type = "number" /\ v.num = 0

Digits == << "0", "1", "2", "3", "4", "5", "6", "7", "8", "9" >>

\* String(n) for a natural number
RECURSIVE ToDigits(_)
ToDigits(n) == IF n < 10 THEN << Digits[n + 1] >>
               ELSE Append(ToDigits(n \div 10), Digits[(n % 10) + 1])

\* a cell whose quotes are left as they are
escapeNothing(chars) == chars

\* val.replace(/"/g, '""')
escapeQuotes(chars) ==
    Flatten([ i \in DOMAIN chars |-> IF chars[i] = DQ THEN << DQ, DQ >> ELSE << chars[i] >> ])

\* one cell, had an absent value been written as nothing at all
csvCellBlank(v) ==
    IF Falsy(v) THEN <<>>
    ELSE IF v.type = "string" THEN << DQ >> \o escapeQuotes(v.str) \o << DQ >>
    ELSE ToDigits(v.num)

\* one cell: row[h.key] || '', a string wrapped in quotes, a number as it prints
csvCell(v) ==
    LET val == IF Falsy(v) THEN JsString(<<>>) ELSE v
    IN  IF val.type = "string" THEN << DQ >> \o escapeQuotes(val.str) \o << DQ >>
        ELSE ToDigits(val.num)

\* Array.prototype.join
RECURSIVE Join(_, _)
Join(parts, sep) ==
    IF parts = <<>> THEN <<>>
    ELSE IF Len(parts) = 1 THEN parts[1]
    ELSE parts[1] \o sep \o Join(Tail(parts), sep)

convertToCSV(data, headers) ==
    LET headerRow == Join([ h \in DOMAIN headers |-> headers[h].label ], << COMMA >>)
        bodyRows == [ r \in DOMAIN data |->
                        Join([ h \in DOMAIN headers |-> csvCell(data[r][headers[h].key]) ],
                             << COMMA >>) ]
    IN  Join(<< headerRow >> \o bodyRows, << LF >>)

PainPointHeaders ==
    << [ key |-> "description", label |-> <<"D", "e", "s", "c", "r", "i", "p", "t", "i", "o", "n">> ],
       [ key |-> "severity", label |-> <<"S", "e", "v", "e", "r", "i", "t", "y">> ],
       [ key |-> "stageName", label |-> <<"S", "t", "a", "g", "e">> ],
       [ key |-> "stepAction", label |-> <<"U", "s", "e", "r", " ", "A", "c", "t", "i", "o", "n">> ] >>

\* The reader of the exported file: a CSV parser with quoted fields, in which a
\* doubled quote stands for a quote and commas and line breaks are text. A position
\* lies inside a quoted field when an odd number of quotes precedes it.
QuotesIn(text, from, to) == Cardinality({ k \in from..to : text[k] = DQ })

Quoted(text, i) == QuotesIn(text, 1, i - 1) % 2 = 1

\* the positions of the separator c that are not quoted
Breaks(text, c) == { i \in DOMAIN text : text[i] = c /\ ~Quoted(text, i) }

\* a set of numbers in ascending order
Ascending(S) ==
    [ i \in 1..Cardinality(S) |-> CHOOSE x \in S : Cardinality({ y \in S : y < x }) = i - 1 ]

\* the stretches of text[from..to] between the separators at `breaks`
Pieces(from, to, breaks) ==
    LET at == Ascending({ k \in breaks : from <= k /\ k <= to })
    IN  [ j \in 1..(Len(at) + 1) |->
            [ from |-> IF j = 1 THEN from ELSE at[j - 1] + 1,
              to |-> IF j = Len(at) + 1 THEN to ELSE at[j] - 1 ] ]

\* the text of a field: of a quoted field what is between its quotes, with the second
\* quote of each pair dropped
FieldText(text, from, to) ==
    IF from < to /\ text[from] = DQ /\ text[to] = DQ
    THEN LET kept == Ascending({ k \in (from + 1)..(to - 1) :
                         text[k] # DQ \/ QuotesIn(text, from + 1, k - 1) % 2 = 0 })
         IN  [ i \in DOMAIN kept |-> text[kept[i]] ]
    ELSE SubSeq(text, from, to)

\* the records of a text, each the sequence of its fields
ParseCSV(text) ==
    IF text = <<>> THEN <<>>
    ELSE LET records == Pieces(1, Len(text), Breaks(text, LF))
             commas == Breaks(text, COMMA)
         IN  [ r \in DOMAIN records |->
                 LET fields == Pieces(records[r].from, records[r].to, commas)
                 IN  [ f \in DOMAIN fields |->
                         FieldText(text, fields[f].from, fields[f].to) ] ]

\* the descriptions exported: texts of up to MaxCsvLen characters, with quotes,
\* commas and line breaks among them
MaxCsvLen == 3
MaxCsvRows == 2

CsvChars == { "a", DQ, COMMA, LF }

CsvTexts == UNION { [ 1..n -> CsvChars ] : n \in 0..MaxCsvLen }

\* a row of reportData.painPoints
ReportPainPoint(description, severity) ==
    [ description |-> JsString(description), severity |-> severity,
      stageName |-> JsString(<<"a", COMMA>>), stepAction |-> JsString(NewUserAction) ]

CsvSeverities == { JsNull, JsString(<<"l", "o", "w">>) }

CsvRowLists ==
    { << ReportPainPoint(d, s) >> : d \in CsvTexts, s \in CsvSeverities }
    \cup { << ReportPainPoint(<<DQ, COMMA>>, JsNull), ReportPainPoint(d, s) >> :
           d \in CsvTexts, s \in CsvSeverities }

InitCsv ==
    InitPure({ [ fn |-> "convertToCSV", data |-> rows, done |-> FALSE, out |-> <<>> ] :
               rows \in { l \in CsvRowLists : Len(l) <= MaxCsvRows } })

handleExportPainPoints ==
    /\ pure.fn = "convertToCSV"
    /\ ~pure.done
    /\ pure' = [ pure EXCEPT !.done = TRUE, !.out = convertToCSV(pure.data, PainPointHeaders) ]
    /\ PureUnchanged

NextCsv == handleExportPainPoints

SpecCsv == InitCsv /\ [][NextCsv]_vars

----
\* CFPManagement: getDeadlineInfo

\* Instants are counted in minutes since the epoch (the code counts milliseconds;
\* every instant here is a whole minute).
MinutesPerDay == 24 * 60

\* the day number of a civil date, as Date.UTC(y, m - 1, d) / 86400000
DaysFromCivil(y, m, d) ==
    LET yy == IF m <= 2 THEN y - 1 ELSE y
        era == yy \div 400
        yoe == yy - era * 400
        mp == IF m > 2 THEN m - 3 ELSE m + 9
        doy == (153 * mp + 2) \div 5 + d - 1
        doe == yoe * 365 + yoe \div 4 - yoe \div 100 + doy
    IN  era * 146097 + doe - 719468

\* the civil date of a day number
CivilFromDays(z) ==
    LET zz == z + 719468
        era == zz \div 146097
        doe == zz - era * 146097
        yoe == (doe - doe \div 1460 + doe \div 36524 - doe \div 146096) \div 365
        doy == doe - (365 * yoe + yoe \div 4 - yoe \div 100)
        mp == (5 * doy + 2) \div 153
        d == doy - (153 * mp + 2) \div 5 + 1
        m == IF mp < 10 THEN mp + 3 ELSE mp - 9
        y == yoe + era * 400
    IN  << IF m <= 2 THEN y + 1 ELSE y, m, d >>

\* digits of n, padded with zeros to `width`
RECURSIVE Pad(_, _)
Pad(chars, width) == IF Len(chars) >= width THEN chars ELSE Pad(<< "0" >> \o chars, width)

\* the value of <input type="date">: YYYY-MM-DD
DateString(ymd) ==
    Pad(ToDigits(ymd[1]), 4) \o << "-" >> \o Pad(ToDigits(ymd[2]), 2) \o << "-" >>
    \o Pad(ToDigits(ymd[3]), 2)

\* String.prototype.split
RECURSIVE Split(_, _)
Split(chars, sep) ==
    IF \A i \in DOMAIN chars : chars[i] # sep THEN << chars >>
    ELSE LET k == CHOOSE i \in DOMAIN chars :
                      chars[i] = sep /\ \A j \in 1..(i - 1) : chars[j] # sep
         IN  << SubSeq(chars, 1, k - 1) >> \o Split(SubSeq(chars, k + 1, Len(chars)), sep)

DigitValue(c) == (CHOOSE i \in DOMAIN Digits : Digits[i] = c) - 1

\* parseInt(p, 10) of a string of digits
RECURSIVE parseInt(_)
parseInt(chars) ==
    IF chars = <<>> THEN 0
    ELSE 10 * parseInt(SubSeq(chars, 1, Len(chars) - 1)) + DigitValue(chars[Len(chars)])

MonthShort == << "Jan", "Feb", "Mar", "Apr", "May", "Jun", "Jul", "Aug", "Sep", "Oct",
                 "Nov", "Dec" >>

\* deadlineDate.toLocaleDateString(undefined, { year: 'numeric', month: 'short',
\* day: 'numeric', timeZone: 'UTC' }), as en-US prints it
formattedDate(day) ==
    LET ymd == CivilFromDays(day)
    IN  << MonthShort[ymd[2]], " " >> \o ToDigits(ymd[3]) \o << ", " >> \o ToDigits(ymd[1])

\* new Date(); today.setHours(0, 0, 0, 0): the instant of the local midnight before
\* `now`, where local time is UTC + offset
localMidnight(now, offset) == ((now + offset) \div MinutesPerDay) * MinutesPerDay - offset

\* Math.ceil(a / b), b > 0
Ceil(a, b) == -((-a) \div b)

getDeadlineInfo(deadline, now, offset) ==
    IF deadline = <<>> THEN << "N/A" >>
    ELSE LET today == localMidnight(now, offset)
             parts == MapSeq(Split(deadline, "-"), parseInt)
             deadlineDate == DaysFromCivil(parts[1], parts[2], parts[3]) * MinutesPerDay
             diffTime == deadlineDate - today
             diffDays == Ceil(diffTime, MinutesPerDay)
         IN  IF diffDays < 0 THEN << "Overdue" >>
             ELSE IF diffDays = 0 THEN << "Due Today!" >>
             ELSE IF diffDays <= 7
             THEN << "In " >> \o ToDigits(diffDays) \o << " day" >>
                  \o (IF diffDays > 1 THEN << "s" >> ELSE <<>>)
             ELSE formattedDate(deadlineDate \div MinutesPerDay)

\* where and when the page is open: the offset of local time from UTC in minutes,
\* the UTC date and the minute of the UTC day
Offsets == { -8 * 60, -1, 0, 60, 5 * 60 + 30, 14 * 60 }
MinutesOfDay == { 0, 12 * 60, MinutesPerDay - 1 }
UtcDates == { << 2024, 2, 28 >>, << 2025, 12, 31 >> }
\* the deadline, in days after the local calendar date of today
DeadlineDays == { -1, 0, 1, 5, 7, 8, 30 }

\* the local calendar date of `now`, as a day number
localToday(now, offset) == (now + offset) \div MinutesPerDay

InitDeadline ==
    InitPure({ [ fn |-> "getDeadlineInfo", offset |-> off, days |-> k,
                 now |-> DaysFromCivil(date[1], date[2], date[3]) * MinutesPerDay + minute,
                 deadline |-> DateString(CivilFromDays(
                     localToday(DaysFromCivil(date[1], date[2], date[3]) * MinutesPerDay
                                + minute, off) + k)),
                 done |-> FALSE, out |-> <<>> ] :
               off \in Offsets, k \in DeadlineDays, date \in UtcDates,
               minute \in MinutesOfDay })

\* a row of the CFP table is rendered
renderDeadline ==
    /\ pure.fn = "getDeadlineInfo"
    /\ ~pure.done
    /\ pure' = [ pure EXCEPT !.done = TRUE,
                             !.out = getDeadlineInfo(pure.deadline, pure.now, pure.offset) ]
    /\ PureUnchanged

NextDeadline == renderDeadline

SpecDeadline == InitDeadline /\ [][NextDeadline]_vars

----
\* The reshaping of the rows of the stage query, on rows as the gateway may return
\* them: a nested array may be missing and the persona joined to an association row
\* may be absent

MaxJoinRows == 2

JoinRows ==
    { [ developer_personas |-> NULL ], [ developer_personas |-> ReportPersona(4) ],
      [ developer_personas |-> ReportPersona(5) ] }

JoinRowLists == UNION { [ 1..n -> JoinRows ] : n \in 0..MaxJoinRows }

\* a returned nested array: missing, empty, or holding a row
NestedArrays(row) == { NullArray, <<>>, << row >> }

StepRows ==
    { [ id |-> 3, stage_id |-> 1, user_action |-> <<"a">>, user_goal |-> <<"g">>,
        pain_points |-> pp, touchpoints |-> tp, metrics |-> m, audits |-> au,
        persona_journey_steps |-> pjs ] :
      pp \in NestedArrays([ id |-> 6, step_id |-> 3 ]),
      tp \in { NullArray, << [ id |-> 7, step_id |-> 3 ] >> },
      m \in { NullArray, << [ id |-> 8, step_id |-> 3 ] >> },
      au \in { NullArray, << [ id |-> 9, step_id |-> 3 ] >> },
      pjs \in JoinRowLists }

StageRows ==
    { << [ id |-> 1, name |-> <<"a">>, stage_order |-> 1, steps |-> steps ] >> :
      steps \in { <<>> } \cup { << st >> : st \in StepRows } }

InitReshape ==
    InitPure({ [ fn |-> "processedStages", stagesData |-> rows, done |-> FALSE,
                 out |-> <<>> ] : rows \in StageRows })

\* the stage query has returned rows: they are reshaped
reshapeStages ==
    /\ pure.fn = "processedStages"
    /\ ~pure.done
    /\ pure' = [ pure EXCEPT !.done = TRUE, !.out = processedStages(pure.stagesData) ]
    /\ PureUnchanged

NextReshape == reshapeStages

SpecReshape == InitReshape /\ [][NextReshape]_vars

----
\* MetricsDashboardModal.formatGoal, on the metrics of the aggregated tree: the goal of
\* a metric is a number, undefined (a form that never had one) or null (the gateway
\* returns null for a column left out of the upsert)

\* Number.prototype.toLocaleString of a natural number: groups of three digits with the
\* separator of the locale
RECURSIVE GroupDigits(_, _)
GroupDigits(digits, sep) ==
    IF Len(digits) <= 3 THEN digits
    ELSE GroupDigits(SubSeq(digits, 1, Len(digits) - 3), sep) \o << sep >>
         \o SubSeq(digits, Len(digits) - 2, Len(digits))

GroupSeparator(locale) == IF locale = "de-DE" THEN "." ELSE ","

toLocaleString(n, locale) == GroupDigits(ToDigits(n), GroupSeparator(locale))

Returns(text) == [ throws |-> FALSE, text |-> text ]
Throws(error) == [ throws |-> TRUE, text |-> << error >> ]

formatGoal(metric, locale) ==
    IF metric.metric_goal = UNDEFINED THEN Returns(<< "N/A" >>)
    ELSE IF metric.measurement_type = "percentage"
    THEN Returns((IF metric.metric_goal = NULL THEN << "null" >>
                  ELSE ToDigits(metric.metric_goal.value)) \o << "%" >>)
    ELSE IF metric.metric_goal = NULL THEN Throws("TypeError")
    ELSE Returns(toLocaleString(metric.metric_goal.value, locale))

MaxGoal == 1500

Goals == { UNDEFINED, NULL } \cup { Some(n) : n \in { 0, 1, 5, 99, 100, 999, 1000, MaxGoal } }
Locales == { "en-US", "de-DE" }

InitGoal ==
    InitPure({ [ fn |-> "formatGoal", locale |-> locale, done |-> FALSE,
                 metric |-> [ id |-> 8, step_id |-> 3, metric_name |-> <<"m">>,
                              metric_goal |-> goal, measurement_type |-> type ],
                 out |-> Returns(<<>>) ] :
               goal \in Goals, type \in Range(MEASUREMENT_TYPES), locale \in Locales })

\* a row of the metrics dashboard is rendered
renderGoal ==
    /\ pure.fn = "formatGoal"
    /\ ~pure.done
    /\ pure' = [ pure EXCEPT !.done = TRUE, !.out = formatGoal(pure.metric, pure.locale) ]
    /\ PureUnchanged

NextGoal == renderGoal

SpecGoal == InitGoal /\ [][NextGoal]_vars

SpecUnconfigured == InitUnconfigured /\ [][NextUnconfigured]_vars

----
\* The specifications: the gateway and the promises with the gestures of one part of
\* the journey view

\* stages and steps
Next == Async \/ StageGestures

Spec == Init /\ [][Next]_vars

\* the same with the scheduling of the promises: the effect of App runs after the first
\* render, every request is settled by the gateway (an answer or an error), and the
\* continuation of a settled promise runs
Settles ==
    /\ WF_vars(Mount)
    /\ WF_vars(\E i \in DOMAIN fetches, ok \in BOOLEAN : GatewayReadPersonas(i, ok))
    /\ WF_vars(\E i \in DOMAIN fetches, ok \in BOOLEAN : GatewayReadStages(i, ok))
    /\ WF_vars(\E i \in DOMAIN fetches : FetchResolve(i))
    /\ WF_vars(\E i \in DOMAIN writes, reply \in BOOLEAN : WriteComplete(i, reply))

SpecLive == Init /\ [][Next]_vars /\ Settles

\* inline editing of the texts of stages and steps
NextInline == Async \/ InlineGestures

SpecInline == InitSeed /\ [][NextInline]_vars

\* the editors with required fields: pain point, touchpoint, metric, persona
\* the user of the forms waits for the reply to a save before the next gesture
FormsIdle == Len(writes) < MaxFormsInFlight

NextForms ==
    \/ Async
    \/ FormsIdle /\ PainPointGestures
    \/ FormsIdle /\ TouchpointGestures
    \/ FormsIdle /\ MetricGestures
    \/ FormsIdle /\ PersonaFormGestures

SpecForms == InitSeed /\ [][NextForms]_vars

\* personas and their association with steps
NextPersona ==
    Async \/ PersonaGestures \/ PersonaFormGestures \/ PersonaDeleteGestures

SpecPersona == InitSeed /\ [][NextPersona]_vars

----
\* Properties

Last(s) == s[Len(s)]

\* the step appends the record of a user intent of handler `op` to the log
Called(op) == Len(log') = Len(log) + 1 /\ Last(log').op = op

Blank(text) == Trim(text) = <<>>

\* C1: without a gateway every call of a mutation handler shows a message and issues
\* no write and no fetch, and the stage tree and the persona list stay as they were
\* (empty, as the first render leaves them).
C1_UnconfiguredRefuses ==
    ~configured =>
        /\ writes = <<>>
        /\ fetches = <<>>
        /\ db = EmptyDb
        /\ journeyStages = <<>>
        /\ developerPersonas = <<>>
        /\ \A i \in DOMAIN log :
              log[i].alerts # <<>> /\ log[i].writes = 0 /\ log[i].refetches = 0

\* a toggle and an Enter in an inline editor, both refused for want of a gateway
C1_Witness ==
    /\ ~configured
    /\ Len(log) = 2
    /\ log[1].op = "togglePersona" /\ log[1].alerts = << "not_configured" >>
    /\ log[2].op = "enter" /\ log[2].alerts = << "not_configured", "not_configured" >>

\* C2: two consecutive toggles of one persona on one step, each made after the
\* previous write and its refetch have completed without error, through the popover
\* left open or through the chip, leave the associations of the gateway as they were
\* before the first.
C2_DoubleToggleRestores ==
    ( /\ toggleRun # NULL
      /\ toggleRun.count = 2
      /\ Quiescent
      /\ queryErrors = 0
      /\ \A i \in DOMAIN log : log[i].errors = 0 )
    => db.assoc = toggleRun.before

\* C3: when no write and no fetch is in flight (and no query of a fetch has failed),
\* the stage tree and the persona list are the reshaped current state of the gateway.
C3_QuiescentIsCurrent ==
    ( Quiescent /\ configured /\ queryErrors = 0 )
    => /\ journeyStages = RenderSort(processedStages(fetchStages(db)))
       /\ developerPersonas = fetchAllPersonas(db)

\* C4: a user intent whose writes have all been answered has issued one write; if the
\* write succeeded one refetch was started for it, if it failed none was.
C4_OneWriteOneRefetch ==
    \A i \in DOMAIN log :
        ( /\ log[i].writes > 0
          /\ \A w \in DOMAIN writes : writes[w].intent # i )
        => /\ log[i].writes = 1
           /\ log[i].errors = 0 => log[i].refetches = 1
           /\ log[i].errors > 0 => log[i].refetches = 0

StagesAscending(stages) ==
    \A i, j \in DOMAIN stages : i < j => stages[i].stage_order <= stages[j].stage_order

StepsGrouped(stages) ==
    \A i \in DOMAIN stages : \A k \in DOMAIN stages[i].steps :
        stages[i].steps[k].stage_id = stages[i].id

\* C5: the tree a successful fetch produces, and the tree the view renders, have their
\* stages in ascending stage_order and list under each stage only steps of that stage.
C5_SortedAndGrouped ==
    /\ StagesAscending(lastFetched) /\ StepsGrouped(lastFetched)
    /\ StagesAscending(journeyStages) /\ StepsGrouped(journeyStages)

\* a fetched tree of two stages, the first of them with a step
C5_Witness ==
    /\ ViewReady
    /\ Len(lastFetched) >= 2
    /\ journeyStages = lastFetched
    /\ lastFetched[1].stage_order < lastFetched[2].stage_order
    /\ \E i \in DOMAIN lastFetched : lastFetched[i].steps # <<>>

\* the ids of the stages, steps, pain points, touchpoints and metrics of a tree
TreeIds(stages) ==
    LET steps == FlatMap(stages, LAMBDA stage : stage.steps)
    IN  IdsOf(stages) \cup IdsOf(steps)
        \cup IdsOf(FlatMap(steps, LAMBDA step : step.pain_points))
        \cup IdsOf(FlatMap(steps, LAMBDA step : step.touchpoints))
        \cup IdsOf(FlatMap(steps, LAMBDA step : step.metrics))

\* C6: the stages a fetch receives (the only source of the tree) hold no stage, step,
\* pain point, touchpoint or metric that a Delete Stage had removed when the fetch
\* was issued.
C6_DeletedStageStaysGone ==
    \A i \in DOMAIN fetches :
        ( fetches[i].stages # PENDING /\ ~fetches[i].stages.error )
        => TreeIds(processedStages(fetches[i].stages.data)) \cap fetches[i].deletedAtIssue = {}

\* the refetch after the delete of a stage that had a step with a pain point, a
\* touchpoint and a metric has received the remaining stage
C6_Witness ==
    \E i \in DOMAIN fetches :
        /\ Cardinality(fetches[i].deletedAtIssue) >= 5
        /\ fetches[i].stages # PENDING
        /\ ~fetches[i].stages.error
        /\ Len(fetches[i].stages.data) = 1

\* the persona ids that occur in the steps of a stage
PersonaIdsOf(stage) ==
    UNION { { stage.steps[k].personas[j].id : j \in DOMAIN stage.steps[k].personas } :
            k \in DOMAIN stage.steps }

\* C7: the persona summary counts, for each stage in scope, the distinct persona ids
\* of its steps.
C7_DistinctPersonas ==
    ( pure.done /\ pure.out # NULL )
    => LET scope == relevantStages(pure.stages, pure.filter)
       IN  /\ Len(pure.out.personaSummary) = Len(scope)
           /\ \A i \in DOMAIN scope :
                 pure.out.personaSummary[i].count = Cardinality(PersonaIdsOf(scope[i]))

\* two steps that share one persona and have one further persona each: 3
C7_Witness ==
    /\ pure.done
    /\ pure.out # NULL
    /\ Len(pure.stages[1].steps) = 2
    /\ pure.stages[1].steps[1].personas = << ReportPersona(4), ReportPersona(5) >>
    /\ pure.stages[1].steps[2].personas = << ReportPersona(4), ReportPersona(6) >>
    /\ pure.out.personaSummary[1].count = 3

\* C8: read back by a CSV parser, the export has one record per row and the header,
\* every record has as many fields as there are columns, and the first field of each
\* row is the description as it was.
C8_CsvRoundTrip ==
    pure.done =>
        LET records == ParseCSV(pure.out)
        IN  /\ Len(records) = 1 + Len(pure.data)
            /\ \A r \in DOMAIN records : Len(records[r]) = Len(PainPointHeaders)
            /\ \A i \in DOMAIN pure.data :
                  records[i + 1][1] = pure.data[i].description.str

\* an exported description with a quote and a comma in it
C8_Witness ==
    /\ pure.done
    /\ \E i \in DOMAIN pure.data :
          /\ DQ \in Range(pure.data[i].description.str)
          /\ COMMA \in Range(pure.data[i].description.str)
          /\ ParseCSV(pure.out)[i + 1][1] = pure.data[i].description.str

\* C9: wherever and whenever the page is open, a deadline on the local date of today
\* is due today, one 5 days later is in 5 days, one of yesterday is overdue and one
\* 30 days later is shown as its date.
C9_DeadlineClasses ==
    pure.done =>
        /\ pure.days = 0 => pure.out = << "Due Today!" >>
        /\ pure.days = 5 => pure.out = << "In ", "5", " day", "s" >>
        /\ pure.days = -1 => pure.out = << "Overdue" >>
        /\ pure.days = 30 =>
              pure.out = formattedDate(localToday(pure.now, pure.offset) + 30)

\* a save with a blank required field: nothing is sent, the editor and its form stay
SaveRefused(editor, form) ==
    /\ Last(log').alerts = << "validation" >>
    /\ Last(log').writes = 0
    /\ writes' = writes
    /\ fetches' = fetches
    /\ journeyStages' = journeyStages
    /\ developerPersonas' = developerPersonas
    /\ editor # NULL
    /\ editor' = editor
    /\ form' = form

\* C10: a save of a pain point, touchpoint, metric or persona whose required text is
\* empty or blank shows a message, sends nothing and leaves the editor open and the
\* tree as it is; no write and no refetch is ever counted for it.
C10_BlankIsRefused ==
    /\ [][ /\ ( Called("savePainPoint") /\ Blank(ppForm.description) )
              => SaveRefused(editingPainPoint, ppForm)
           /\ ( Called("saveTouchpoint") /\ Blank(tpForm.title) )
              => SaveRefused(editingTouchpoint, tpForm)
           /\ ( Called("saveMetric") /\ Blank(metricForm.metric_name) )
              => SaveRefused(editingMetric, metricForm)
           /\ ( Called("savePersona") /\ Blank(personaForm.name) )
              => SaveRefused(editingPersona, personaForm) ]_vars
    /\ [](\A i \in DOMAIN log :
            log[i].alerts = << "validation" >> =>
                log[i].writes = 0 /\ log[i].refetches = 0 /\ log[i].errors = 0)

\* a metric with a blank name and then a persona with an empty name were refused,
\* and the persona form is still open
C10_Witness ==
    /\ Len(log) = 2
    /\ log[1].op = "saveMetric" /\ log[1].alerts = << "validation" >>
    /\ log[2].op = "savePersona" /\ log[2].alerts = << "validation" >>
    /\ editingPersona # NULL
    /\ Blank(personaForm.name)
    /\ writes = <<>> /\ fetches = <<>>

----
\* C11: a fetch one of whose queries returned an error leaves the collection of that
\* query as it was: the step in which such a fetch completes changes neither the stage
\* tree (stage query failed) nor the persona list (persona query failed), and the
\* collections change in no step other than the completion of a fetch, so that what
\* the failed fetch leaves is the prior state, not an empty collection.
Resolves(i) == i \in DOMAIN fetches /\ fetches' = RemoveAt(fetches, i)

----
----
\* the (persona_id, step_id) pair a toggle request names
TogglePair(req) == IF req.kind = "delete" THEN req.match ELSE req.row

\* the handler has just issued its request for a Toggle Persona
ToggleIssued == Called("togglePersona") /\ Len(writes') = Len(writes) + 1

\* C13: the association collection of the gateway never holds the same
\* (persona_id, step_id) pair twice, and no Toggle Persona issues an insert for a pair
\* that the gateway holds when the insert is issued.
C13_NoDuplicatePair ==
    /\ [](\A i, j \in DOMAIN db.assoc : db.assoc[i] = db.assoc[j] => i = j)
    /\ [][ ToggleIssued /\ Last(writes').req.kind = "insert"
              => \A i \in DOMAIN db.assoc : db.assoc[i] # Last(writes').req.row ]_vars

\* the association of a pair in the aggregated tree the journey view shows
InTree(pair) ==
    \E i \in DOMAIN TreeSteps :
        /\ TreeSteps[i].id = pair.step_id
        /\ \E k \in DOMAIN TreeSteps[i].personas :
               TreeSteps[i].personas[k].id = pair.persona_id

\* C16: a Toggle Persona issues a delete exactly when the association of its persona
\* and step exists in the current aggregated tree, and an insert otherwise; a click on
\* the remove button of a chip (the pair is in the tree) therefore issues a delete.
C16_ToggleFollowsTree ==
    [][ ToggleIssued =>
          (Last(writes').req.kind = "delete" <=> InTree(TogglePair(Last(writes').req))) ]_vars

----
\* the delete operations of the journey model
DeleteOps ==
    { "deleteStage", "deleteStep", "deletePersona", "deletePainPoint", "deleteTouchpoint",
      "deleteMetric" }

\* C14: a delete operation sends its gateway delete only when the user has confirmed
\* the prompt: every call of a delete handler that issued a write was confirmed, every
\* delete in flight belongs to a confirmed call, and a declined call issued no write.
C14_DeleteAfterConfirm ==
    /\ \A i \in DOMAIN log :
          log[i].op \in DeleteOps =>
              /\ log[i].writes > 0 => log[i].confirmed = "yes"
              /\ log[i].confirmed = "no" => log[i].writes = 0
    /\ \A i \in DOMAIN writes :
          writes[i].op \in DeleteOps => log[writes[i].intent].confirmed = "yes"

----
\* the gateway write i of a handler ends in an error
WriteFails(i) ==
    /\ i \in DOMAIN writes
    /\ writes' = RemoveAt(writes, i)
    /\ log'[writes[i].intent].errors = log[writes[i].intent].errors + 1

\* C15: when the gateway write of a non-delete operation fails, the editor of that
\* operation stays open with the text the user entered: the inline editor keeps its
\* target and its value, and the pain point, touchpoint and metric editors keep their
\* record and their form.
C15_FailedSaveKeepsEditor ==
    [][ \A i \in DOMAIN writes :
          WriteFails(i) =>
              /\ writes[i].op = "handleSave" /\ editing # NULL
                     => editing' = editing /\ editValue' = editValue
              /\ writes[i].op = "savePainPoint"
                     => editingPainPoint' = editingPainPoint /\ ppForm' = ppForm
              /\ writes[i].op = "saveTouchpoint"
                     => editingTouchpoint' = editingTouchpoint /\ tpForm' = tpForm
              /\ writes[i].op = "saveMetric"
                     => editingMetric' = editingMetric /\ metricForm' = metricForm ]_vars

----
\* the gateway write i of a handler ends without an error
WriteSucceeds(i) ==
    /\ i \in DOMAIN writes
    /\ writes' = RemoveAt(writes, i)
    /\ log'[writes[i].intent].refetches = log[writes[i].intent].refetches + 1

\* the gateway with column col of the record id of table t set to text
WithField(d, t, id, col, text) ==
    [ d EXCEPT ![t] = [ k \in DOMAIN d[t] |->
                          IF d[t][k].id = id THEN [ d[t][k] EXCEPT ![col] = text ]
                          ELSE d[t][k] ] ]

\* C17: committing an inline edit updates one field of one record: every update the
\* inline editor sends names the column `name` of a stage or the column `user_action`
\* or `user_goal` of a step, an update that ends without error has set that column of
\* the edited record to the text and changed nothing else at the gateway, and an update
\* that ends in an error has changed nothing.
C17_InlineEditOneField ==
    /\ [](\A i \in DOMAIN writes :
            writes[i].op = "handleSave" =>
                DOMAIN writes[i].req.patch \in
                    (IF writes[i].req.table = "journey_stages" THEN { { "name" } }
                     ELSE { { "user_action" }, { "user_goal" } }))
    /\ [][ \A i \in DOMAIN writes :
              writes[i].op = "handleSave" =>
                  LET req == writes[i].req
                      col == CHOOSE c \in DOMAIN req.patch : TRUE
                  IN  /\ WriteSucceeds(i) =>
                             db' = WithField(db, TableOf(req.table), req.match.id, col,
                                             req.patch[col])
                      /\ WriteFails(i) => db' = db ]_vars

----
\* C18: one inline edit gesture issues a fixed number of gateway updates: a commit by
\* blur one, a commit by Enter one, and Escape none, leaving the gateway as it is.
C18_OneUpdatePerGesture ==
    /\ [](configured =>
            \A i \in DOMAIN log : log[i].op \in { "blur", "enter" } => log[i].writes = 1)
    /\ [][ handleKeyDownEscape => writes' = writes /\ db' = db ]_vars

----
\* C19: whenever a fetch is in flight the loading flag is true, also when two fetches
\* overlap.
C19_LoadingWhileInFlight == fetches # <<>> => isLoading

\* C20: a fetch applies its results only when both its queries have resolved, and in
\* the one step in which it clears the loading flag it replaces the persona list and
\* the stage tree by what its queries returned: after the effect of App has run, the
\* collections change in no step but the completion of a fetch, and the completion of
\* a fetch finds both queries resolved, applies each returned result and lowers the
\* flag, so that no state shows the result of one query of a fetch without the other.
Applies(i) ==
    /\ fetches[i].personas # PENDING
    /\ fetches[i].stages # PENDING
    /\ fetches[i].personas.data # NullArray =>
           developerPersonas' = fetches[i].personas.data
    /\ fetches[i].stages.data # NullArray =>
           /\ journeyStages' = RenderSort(processedStages(fetches[i].stages.data))
           /\ lastFetched' = processedStages(fetches[i].stages.data)
    /\ ~isLoading'

C20_FetchAppliesTogether ==
    [][ /\ \A i \in DOMAIN fetches : Resolves(i) => Applies(i)
        /\ mounted /\ << journeyStages, developerPersonas, lastFetched >>'
                         # << journeyStages, developerPersonas, lastFetched >>
              => \E i \in DOMAIN fetches : Resolves(i) /\ Applies(i) ]_vars

\* the refetch of an operation has returned both collections and both are shown: the
\* tree has the new stage and the persona list is the gateway's
C20_Witness ==
    /\ Quiescent /\ ~isLoading
    /\ Len(log) = 1 /\ log[1].op = "addStage" /\ log[1].refetches = 1
    /\ queryErrors = 0
    /\ developerPersonas # <<>> /\ developerPersonas = fetchAllPersonas(db)
    /\ Len(journeyStages) = Len(db.stages)
    /\ lastFetched = processedStages(fetchStages(db))

----
\* C21: the two queries of a fetch fail independently: the completion of a fetch whose
\* persona query returned an error and whose stage query succeeded replaces the stage
\* tree by the reshaped stages it fetched, and the completion of a fetch whose stage
\* query returned an error and whose persona query succeeded replaces the persona list
\* by the personas it fetched.
C21_QueriesFailIndependently ==
    [][ \A i \in DOMAIN fetches :
          Resolves(i) =>
              /\ QueryFailed(fetches[i].personas) /\ ~QueryFailed(fetches[i].stages)
                     => /\ lastFetched' = processedStages(fetches[i].stages.data)
                        /\ journeyStages' =
                               RenderSort(processedStages(fetches[i].stages.data))
              /\ QueryFailed(fetches[i].stages) /\ ~QueryFailed(fetches[i].personas)
                     => developerPersonas' = fetches[i].personas.data ]_vars

\* the first fetch has lost its persona query alone: the gateway holds personas and
\* the persona list is empty, while the stage tree of the gateway is shown
C21_Witness ==
    /\ Quiescent /\ configured
    /\ log = <<>>
    /\ queryErrors = 1
    /\ db.personas # <<>> /\ developerPersonas = <<>>
    /\ journeyStages # <<>>
    /\ lastFetched = processedStages(fetchStages(db))

----
----
\* the persona records joined to association rows, in order, without the absent ones
RECURSIVE JoinedPersonas(_)
JoinedPersonas(rows) ==
    IF rows = <<>> THEN <<>>
    ELSE IF Head(rows).developer_personas = NULL THEN JoinedPersonas(Tail(rows))
    ELSE << Head(rows).developer_personas >> \o JoinedPersonas(Tail(rows))

NestedFields == { "pain_points", "touchpoints", "metrics", "audits" }

\* C23: for every stage and step the stage query returned, the reshaped step's personas
\* are the persona records joined to its association rows without the rows whose
\* persona is absent, each of pain_points, touchpoints, metrics and audits is the
\* returned array or the empty list when it is missing, and every other field of the
\* stage and of the step is carried over unchanged.
C23_Reshaped ==
    (pure.fn = "processedStages" /\ pure.done) =>
        /\ Len(pure.out) = Len(pure.stagesData)
        /\ \A s \in DOMAIN pure.stagesData :
              LET stage == pure.stagesData[s]
                  shaped == pure.out[s]
              IN  /\ DOMAIN shaped = DOMAIN stage
                  /\ \A c \in DOMAIN stage \ { "steps" } : shaped[c] = stage[c]
                  /\ Len(shaped.steps) = Len(stage.steps)
                  /\ \A k \in DOMAIN stage.steps :
                        LET step == stage.steps[k]
                            out == shaped.steps[k]
                        IN  /\ DOMAIN out = DOMAIN step \cup { "personas" }
                            /\ out.personas = JoinedPersonas(step.persona_journey_steps)
                            /\ \A c \in NestedFields :
                                  out[c] = IF step[c] = NullArray THEN <<>> ELSE step[c]
                            /\ \A c \in DOMAIN step \ NestedFields : out[c] = step[c]

\* a step came back with an association row whose persona is absent followed by a row
\* with a persona, and with its pain points missing: the reshaped step has the one
\* persona and an empty pain point list
C23_Witness ==
    /\ pure.fn = "processedStages" /\ pure.done
    /\ pure.stagesData[1].steps # <<>>
    /\ pure.stagesData[1].steps[1].persona_journey_steps =
           << [ developer_personas |-> NULL ], [ developer_personas |-> ReportPersona(5) ] >>
    /\ pure.stagesData[1].steps[1].pain_points = NullArray
    /\ pure.out[1].steps[1].personas = << ReportPersona(5) >>
    /\ pure.out[1].steps[1].pain_points = <<>>

----
\* a handler has just issued exactly one gateway write for its call
IssuedOne(op) ==
    /\ Called(op)
    /\ Last(log').writes = 1
    /\ Len(writes') = Len(writes) + 1
    /\ \A i \in DOMAIN writes : writes'[i] = writes[i]
    /\ Last(writes').op = op

\* C24: Add Stage issues exactly one insert of a stage named 'New Stage' whose
\* stage_order is the number of stages of the in-memory tree at the call plus 1; Add
\* Step issues exactly one insert of a step under the given stage (a stage of the tree)
\* with user_action 'New User Action' and user_goal 'New User Goal'.
C24_AddInserts ==
    [][ /\ Called("addStage") /\ configured =>
              /\ IssuedOne("addStage")
              /\ Last(writes').req =
                     [ table |-> "journey_stages", kind |-> "insert",
                       row |-> [ name |-> << "N", "e", "w", " ", "S", "t", "a", "g", "e" >>,
                                 stage_order |-> Len(journeyStages) + 1 ] ]
        /\ Called("addStep") /\ configured =>
              /\ IssuedOne("addStep")
              /\ \E i \in DOMAIN journeyStages :
                     Last(writes').req =
                         [ table |-> "journey_steps", kind |-> "insert",
                           row |-> [ stage_id |-> journeyStages[i].id,
                                     user_action |-> << "N", "e", "w", " ", "U", "s", "e",
                                                        "r", " ", "A", "c", "t", "i", "o",
                                                        "n" >>,
                                     user_goal |-> << "N", "e", "w", " ", "U", "s", "e",
                                                      "r", " ", "G", "o", "a", "l" >> ] ] ]_vars

\* Add Stage has been called on a tree of two stages and its insert, of order 3, is in
\* flight
C24_Witness ==
    /\ Len(journeyStages) = 2
    /\ Len(log) = 1 /\ log[1].op = "addStage"
    /\ Len(writes) = 1
    /\ writes[1].req.kind = "insert" /\ writes[1].req.row.stage_order = 3

----
\* C25: for a non-empty deadline, with d the number of days from the local calendar
\* date of today to the deadline, getDeadlineInfo returns Overdue when d < 0, Due Today
\* when d = 0, 'In d day' ('days' for d > 1) when 1 <= d <= 7, and the formatted date of
\* the deadline when d >= 8.
C25_FourClasses ==
    (pure.fn = "getDeadlineInfo" /\ pure.done /\ pure.deadline # <<>>) =>
        LET d == pure.days
        IN  pure.out =
                IF d < 0 THEN << "Overdue" >>
                ELSE IF d = 0 THEN << "Due Today!" >>
                ELSE IF d = 1 THEN << "In ", "1", " day" >>
                ELSE IF d <= 7 THEN << "In " >> \o ToDigits(d) \o << " day", "s" >>
                ELSE formattedDate(localToday(pure.now, pure.offset) + d)

----
\* the items (stage, step, index) of a nested list of the steps of the stages in scope
ScopeItems(stages, field) ==
    { << s, k, i >> \in (DOMAIN stages) \X (1..MaxReportSteps) \X (1..MaxSummaryItems) :
        /\ k \in DOMAIN stages[s].steps
        /\ i \in DOMAIN stages[s].steps[k][field] }

ItemAt(stages, field, at) == stages[at[1]].steps[at[2]][field][at[3]]

RECURSIVE SumOf(_, _)
SumOf(f, keys) ==
    IF keys = {} THEN 0
    ELSE LET k == CHOOSE x \in keys : TRUE IN f[k] + SumOf(f, keys \ { k })

\* C26: for every report scope the severity histogram and the touchpoint-type
\* histogram partition the flattened lists: each bucket counts the items in scope with
\* that severity (items without a severity under 'none') or that touchpoint_type, no
\* bucket is 0, every item has its bucket, and the buckets sum to the reported total,
\* which is the number of pain points (touchpoints) of the steps in scope.
C26_HistogramsPartition ==
    (pure.fn = "reportData" /\ pure.done /\ pure.out # NULL) =>
        LET scope == IF pure.filter = FullJourney THEN pure.stages
                     ELSE SelectSeq(pure.stages, LAMBDA st : st.id = pure.filter.id)
            pps == ScopeItems(scope, "pain_points")
            tps == ScopeItems(scope, "touchpoints")
            sevOf(at) == LET sev == ItemAt(scope, "pain_points", at).severity
                         IN  IF sev = NullString THEN "none" ELSE sev
            typeOf(at) == ItemAt(scope, "touchpoints", at).touchpoint_type
            bySeverity == pure.out.painPointSummary.bySeverity
            byType == pure.out.touchpointSummary.byType
        IN  /\ pure.out.painPointSummary.total = Cardinality(pps)
            /\ Len(pure.out.painPoints) = Cardinality(pps)
            /\ DOMAIN bySeverity = { sevOf(at) : at \in pps }
            /\ \A b \in DOMAIN bySeverity :
                  /\ bySeverity[b] = Cardinality({ at \in pps : sevOf(at) = b })
                  /\ bySeverity[b] > 0
            /\ SumOf(bySeverity, DOMAIN bySeverity) = pure.out.painPointSummary.total
            /\ pure.out.touchpointSummary.total = Cardinality(tps)
            /\ Len(pure.out.touchpoints) = Cardinality(tps)
            /\ DOMAIN byType = { typeOf(at) : at \in tps }
            /\ \A b \in DOMAIN byType :
                  /\ byType[b] = Cardinality({ at \in tps : typeOf(at) = b })
                  /\ byType[b] > 0
            /\ SumOf(byType, DOMAIN byType) = pure.out.touchpointSummary.total

\* the report of the full journey over three steps: two pain points without severity
\* and two of severity high are counted under 'none' and 'high', and the three
\* touchpoints under Email and Docs
C26_Witness ==
    /\ pure.fn = "reportData" /\ pure.done /\ pure.out # NULL
    /\ pure.filter = FullJourney
    /\ Len(pure.stages) = 2
    /\ pure.out.painPointSummary.total = 4
    /\ DOMAIN pure.out.painPointSummary.bySeverity = { "none", "high" }
    /\ pure.out.painPointSummary.bySeverity["none"] = 2
    /\ pure.out.touchpointSummary.total = 3
    /\ DOMAIN pure.out.touchpointSummary.byType = { "Email", "Docs" }

----
\* a text with every double quote doubled, between double quotes
RECURSIVE Doubled(_)
Doubled(chars) ==
    IF chars = <<>> THEN <<>>
    ELSE (IF Head(chars) = DQ THEN << DQ, DQ >> ELSE << Head(chars) >>) \o Doubled(Tail(chars))

QuotedText(chars) == << DQ >> \o Doubled(chars) \o << DQ >>

\* the file of the pain point export with a given cell for an absent value: the labels
\* joined by commas, then one line per row of its four cells joined by commas
PainPointCsv(data, absentCell) ==
    LET Cell(v) == IF v.type = "null" THEN absentCell ELSE QuotedText(v.str)
        Line(row) == Cell(row.description) \o << COMMA >> \o Cell(row.severity)
                     \o << COMMA >> \o Cell(row.stageName) \o << COMMA >>
                     \o Cell(row.stepAction)
        Header == << "D", "e", "s", "c", "r", "i", "p", "t", "i", "o", "n", COMMA,
                     "S", "e", "v", "e", "r", "i", "t", "y", COMMA,
                     "S", "t", "a", "g", "e", COMMA,
                     "U", "s", "e", "r", " ", "A", "c", "t", "i", "o", "n" >>
    IN  Join(<< Header >> \o [ r \in DOMAIN data |-> Line(data[r]) ], << LF >>)

\* C27: in the CSV of convertToCSV the first row is the column labels joined by commas,
\* every text value is between double quotes with each double quote in it doubled, and
\* an absent value (a pain point without severity) is an empty, unquoted cell.
C27_CsvCells ==
    (pure.fn = "convertToCSV" /\ pure.done) => pure.out = PainPointCsv(pure.data, <<>>)

\* C27, as the code has it: the first row is the column labels joined by commas, every
\* text value is between double quotes with each double quote in it doubled, and an
\* absent value is written as the empty text between double quotes.
C27_CsvCellsAbsentQuoted ==
    (pure.fn = "convertToCSV" /\ pure.done) =>
        pure.out = PainPointCsv(pure.data, << DQ, DQ >>)

\* the export of a pain point without severity whose description holds a double quote
C27_Witness ==
    /\ pure.fn = "convertToCSV" /\ pure.done
    /\ \E i \in DOMAIN pure.data :
          /\ pure.data[i].severity = JsNull
          /\ pure.data[i].description.str = << "a", DQ >>
    /\ Len(pure.out) > Len(PainPointCsv(<<>>, <<>>))

----
\* C28: formatGoal returns 'N/A' for a metric without a goal, also when the goal came
\* back from the gateway as null; the goal followed by '%' for a percentage (0 gives
\* '0%'); the numeric goal otherwise; and it never fails.
C28_FormatGoal ==
    (pure.fn = "formatGoal" /\ pure.done) =>
        LET goal == pure.metric.metric_goal
        IN  /\ ~pure.out.throws
            /\ pure.out.text =
                   IF goal = UNDEFINED \/ goal = NULL THEN << "N/A" >>
                   ELSE IF pure.metric.measurement_type = "percentage"
                   THEN ToDigits(goal.value) \o << "%" >>
                   ELSE toLocaleString(goal.value, pure.locale)

----
\* the tree shown is the reshaped current state of the gateway and nothing is in flight
TreeCurrent ==
    /\ Quiescent
    /\ lastFetched = processedStages(fetchStages(db))

\* C29: when every Add Stage and Delete Stage has been followed by its refetch (the
\* tree is current and nothing is in flight), the stage_order of a newly added stage is
\* strictly greater than that of every stage that exists, so that it is displayed last
\* and shares its stage_order with no other stage.
C29_NewStageIsLast ==
    [][ Called("addStage") /\ configured /\ TreeCurrent =>
          \A i \in DOMAIN db.stages :
              Last(writes').req.row.stage_order > db.stages[i].stage_order ]_vars

----
\* the item an inline update in flight was issued for
TargetOf(w) ==
    [ type |-> IF w.req.table = "journey_stages" THEN "stage" ELSE "step",
      id |-> w.req.match.id,
      field |-> CHOOSE c \in DOMAIN w.req.patch : TRUE ]

\* C30: the completion of the inline save of an item A, with success or with an error,
\* leaves the inline edit state of a different item B as it is: when B is being edited
\* at that moment, B's editor stays open with the text entered for B.
C30_OtherEditorKept ==
    [][ \A i \in DOMAIN writes :
          /\ writes[i].op = "handleSave"
          /\ WriteFails(i) \/ WriteSucceeds(i)
          /\ editing # NULL
          /\ editing # TargetOf(writes[i])
          => editing' = editing /\ editValue' = editValue ]_vars

====
